---- MODULE Spec2Model ----
(***************************************************************************)
(* StoX: stage tree, casting tables, consistency check, model run and      *)
(* model file, as implemented in src/source/stox.h and stox.cpp.           *)
(*                                                                         *)
(* The stage tree of the QTreeWidget is kept as the sequence of its items  *)
(* in the order of QTreeWidgetItemIterator (pre-order), each item with its *)
(* depth; child(), childCount() and parent() are computed from it.         *)
(* Items, tables and list entries are numbered from 1; 0 is the null       *)
(* pointer / "no current item" / index -1 of a combo box.                  *)
(* A float is an exact rational: a casting cell, Eps and a row sum are     *)
(* integers counting 1/Unit; a population is a reduced fraction.           *)
(***************************************************************************)
EXTENDS Integers, Sequences, FiniteSets, TLC

VARIABLES
    tree,        \* ui->TreeWid: the items in iterator order
    cur,         \* ui->TreeWid->currentItem()
    Tables,      \* std::list<TableModel*> Tables
    NumTables,   \* int NumTables
    CBCastings,  \* ui->CBCastings: the item texts, sorted
    CBIndex,     \* ui->CBCastings->currentIndex()
    TableView,   \* ui->TableView->model(): a position in Tables
    Checked,     \* bool Checked
    Saved,       \* bool Saved
    FileName,    \* QString FileName: "" or the name of the model file
    disk,        \* the content of the model file
    CloneMode,   \* bool CloneMode (ui->BCloneNode is checked exactly then)
    SourceClone, \* QTreeWidgetItem *SourceClone
    GoOn,        \* bool GoOn
    Eps,         \* float Eps
    Output,      \* OutTableModel *Output
    runs,        \* the activations of on_actionRun_triggered, innermost last
    crashed,     \* the process has ended abnormally
    castLog,     \* what the call of Cast from the root did in the latest step
    box,         \* what the consistency check of the latest step told the user
    slot,        \* the slot of the latest step
    was,         \* Checked and Saved before the latest step
    left         \* the number of steps the session can still take

(* the state of the program *)
progVars == <<tree, cur, Tables, NumTables, CBCastings, CBIndex, TableView, Checked,
              Saved, FileName, disk, CloneMode, SourceClone, GoOn, Eps, Output, runs,
              crashed>>

(* what is recorded of the latest step *)
stepVars == <<castLog, box, slot, was, left>>

vars == <<progVars, stepVars>>

-----------------------------------------------------------------------------
(* Bounds of the model *)

MaxNodes == 3
(* the stages of the tree after a replication, at most *)
MaxCloned == 4
MaxTables == 2
MaxIters == 2
MaxRuns == 2
MaxSteps == 4
MaxLater == 2

(* 0.001, the tolerance of the row sums, is 1/PerMille *)
PerMille == 1000
(* a casting value counts halves of a thousandth *)
Unit == 2 * PerMille

Dangling == -1

TypeNames == <<"Direct", "Caster", "Success", "Sink">>

(* Alphabetical order of the texts the model uses (QString::operator<) *)
Alphabet == <<"", "Caster", "Direct", "Sink", "Start", "Success", "T", "U", "a", "b">>

-----------------------------------------------------------------------------
(* Arithmetic *)

Abs(x) == IF x < 0 THEN -x ELSE x

Min(S) == CHOOSE x \in S : \A y \in S : x <= y

Max(S) == CHOOSE x \in S : \A y \in S : x >= y

RECURSIVE GCD(_, _)
GCD(a, b) == IF b = 0 THEN a ELSE GCD(b, a % b)

Rat(n, d) ==
    IF n = 0 THEN [num |-> 0, den |-> 1]
    ELSE LET g == GCD(Abs(n), d) IN [num |-> n \div g, den |-> d \div g]

Whole(n) == [num |-> n, den |-> 1]

(* n*f for a population n and a casting value f *)
Times(n, f) ==
    LET g == GCD(Abs(f), Unit)
    IN  Rat(n.num * (f \div g), n.den * (Unit \div g))

RECURSIVE SumSeq(_)
SumSeq(s) == IF s = <<>> THEN 0 ELSE Head(s) + SumSeq(Tail(s))

RECURSIVE Concat(_)
Concat(ss) == IF ss = <<>> THEN <<>> ELSE Head(ss) \o Concat(Tail(ss))

Rank(text) == CHOOSE k \in 1..Len(Alphabet) : Alphabet[k] = text

Range(s) == {s[k] : k \in 1..Len(s)}

(* The positions of s where P holds, in order *)
RECURSIVE SelectIdx(_, _, _)
SelectIdx(s, from, S) ==
    IF from > Len(s) THEN <<>>
    ELSE (IF from \in S THEN <<from>> ELSE <<>>) \o SelectIdx(s, from + 1, S)

-----------------------------------------------------------------------------
(* QTreeWidgetItem and the tree *)

NoID == <<>>

Item(level, name, cast, report, id, pop) ==
    [level |-> level, name |-> name, cast |-> cast, report |-> report, id |-> id, pop |-> pop]

(* new QTreeWidgetItem(nullptr, QStringList() << "Start") *)
StartItem == Item(0, "Start", "", FALSE, NoID, Whole(0))

(* Last position of the subtree of item i *)
SubEnd(t, i) ==
    LET later == {j \in (i + 1)..Len(t) : t[j].level <= t[i].level}
    IN  IF later = {} THEN Len(t) ELSE Min(later) - 1

Subtree(t, i) == SubSeq(t, i, SubEnd(t, i))

ChildSet(t, i) == {j \in (i + 1)..SubEnd(t, i) : t[j].level = t[i].level + 1}

childCount(t, i) == Cardinality(ChildSet(t, i))

(* QTreeWidgetItem::child(c), c from 0 *)
child(t, i, c) ==
    LET S == ChildSet(t, i)
    IN  IF c < 0 \/ c >= Cardinality(S) THEN 0
        ELSE CHOOSE j \in S : Cardinality({k \in S : k < j}) = c

(* QTreeWidgetItem::parent() *)
parent(t, i) ==
    LET S == {j \in 1..(i - 1) : t[j].level = t[i].level - 1}
    IN  IF S = {} THEN 0 ELSE Max(S)

indexOfChild(t, i) == Cardinality({k \in ChildSet(t, parent(t, i)) : k < i})

(* the items of s put at depth d and below, keeping their shape *)
Rebase(s, d) == [k \in 1..Len(s) |-> [s[k] EXCEPT !.level = s[k].level - s[1].level + d]]

(* the first item of s alone becomes the last child of item p *)
addChildAlone(t, p, s) ==
    LET e == SubEnd(t, p)
    IN  SubSeq(t, 1, e) \o Rebase(<<s[1]>>, t[p].level + 1) \o SubSeq(t, e + 1, Len(t))

(* QTreeWidgetItem::addChild: the subtree s becomes the last child of item p *)
addChild(t, p, s) ==
    LET e == SubEnd(t, p)
    IN  SubSeq(t, 1, e) \o Rebase(s, t[p].level + 1) \o SubSeq(t, e + 1, Len(t))

(* Where item k of the tree is after addChild(t, p, s) *)
AfterAdd(t, p, s, k) == IF k > SubEnd(t, p) THEN k + Len(s) ELSE k

(* item i alone is taken out: the items under it stay *)
RemoveNodeOnly(t, i) == SubSeq(t, 1, i - 1) \o SubSeq(t, i + 1, Len(t))

(* Safely remove item i and all following it: what is left of the tree *)
RemoveNode(t, i) == SubSeq(t, 1, i - 1) \o SubSeq(t, SubEnd(t, i) + 1, Len(t))

(* QAbstractItemView::rowsAboutToBeRemoved: the current item after item i (the
   current one) has been taken out of t: the next sibling, else the previous
   one, else the parent; positions are those of RemoveNode(t, i) *)
CurrentAfterRemove(t, i) ==
    LET p == parent(t, i)
        S == IF p = 0 THEN {} ELSE ChildSet(t, p)
        next == {k \in S : k > i}
        prev == {k \in S : k < i}
    IN  IF p = 0 THEN 0
        ELSE IF next # {} THEN i
        ELSE IF prev # {} THEN Max(prev)
        ELSE p

(* only the first item gets its ID: the others keep what they had *)
IDMarkTreeStale(t) == [t EXCEPT ![1].id = <<1>>]

(* IDMarkTree: the first item gets "1"; then every item, in iterator order,
   gives each of its children its own ID followed by the child's number.
   An ID is the sequence of its numbers: "1.2" is <<1, 2>> *)
RECURSIVE MarkFrom(_, _)
MarkFrom(t, k) ==
    IF k > Len(t) THEN t
    ELSE MarkFrom([j \in 1..Len(t) |->
                     IF j \in ChildSet(t, k)
                     THEN [t[j] EXCEPT !.id = t[k].id \o <<indexOfChild(t, j) + 1>>]
                     ELSE t[j]], k + 1)

(* the marking that also gives every item its report mark *)
IDMarkTreeShowing(t) ==
    LET m == MarkFrom([t EXCEPT ![1].id = <<1>>], 1)
    IN  [k \in 1..Len(m) |-> [m[k] EXCEPT !.report = TRUE]]

IDMarkTree(t) == MarkFrom([t EXCEPT ![1].id = <<1>>], 1)

-----------------------------------------------------------------------------
(* TableModel *)

(* TableModel::TableModel *)
EmptyTable == [name |-> "", myrows |-> 0, mycols |-> 0, rawdata |-> <<>>]

FillZeroes(rows, cols, nam) ==
    [name |-> nam, myrows |-> rows, mycols |-> cols,
     rawdata |-> [r \in 1..rows |-> [c \in 1..cols |-> 0]]]

FillFromCopy(source, nam) ==
    [name |-> nam, myrows |-> source.myrows, mycols |-> source.mycols,
     rawdata |-> [r \in 1..source.myrows |-> [c \in 1..source.mycols |-> source.rawdata[r][c]]]]

(* raw holds rows*cols values, row after row *)
FillFromRaw(tbl, raw, rows, cols) ==
    [tbl EXCEPT !.myrows = rows, !.mycols = cols,
                !.rawdata = [r \in 1..rows |-> [c \in 1..cols |-> raw[(r - 1) * cols + c]]]]

setName(tbl, nam) == [tbl EXCEPT !.name = nam]

(* rows and columns are counted from 0, as in the code *)
sumCols(tbl, irow) == SumSeq(tbl.rawdata[irow + 1])

(* rawdata.at(r).at(c) throws std::out_of_range outside the table *)
InTable(tbl, r, c) ==
    /\ r >= 0 /\ r < Len(tbl.rawdata)
    /\ c >= 0 /\ c < Len(tbl.rawdata[r + 1])

readCell(tbl, r, c) == tbl.rawdata[r + 1][c + 1]

(* TableModel::setData with role Qt::EditRole at a valid index (r, c) *)
Clamp(val) == IF val < 0 THEN 0 ELSE IF val > Unit THEN Unit ELSE val

(* the value kept whatever the row holds *)
HeadroomFree(sum, val) == val

Headroom(sum, val) == IF sum + val > Unit THEN Unit - sum ELSE val

setData(tbl, r, c, value) ==
    LET val == Clamp(value)
        sum == SumSeq(tbl.rawdata[r + 1]) - tbl.rawdata[r + 1][c + 1]
    IN  [tbl EXCEPT !.rawdata[r + 1][c + 1] = Headroom(sum, val)]

(* for(auto &&t: Tables) if(t->readName()==name): the first such table *)
FindTable(T, nam) ==
    LET S == {k \in 1..Len(T) : T[k].name = nam}
    IN  IF S = {} THEN 0 ELSE Min(S)

(* std::list::remove(p) for the table at position k (nothing for nullptr) *)
RemoveAt(T, k) ==
    IF k = 0 THEN T ELSE SubSeq(T, 1, k - 1) \o SubSeq(T, k + 1, Len(T))

-----------------------------------------------------------------------------
(* QComboBox CBCastings *)

(* QComboBox::findText: 0 when absent (-1 in the code) *)
findText(cb, text) ==
    LET S == {k \in 1..Len(cb) : cb[k] = text}
    IN  IF S = {} THEN 0 ELSE Min(S)

currentText(cb, idx) == IF idx = 0 THEN "" ELSE cb[idx]

(* ui->CBCastings->model()->sort(0) *)
SortTexts(cb) ==
    Concat([k \in 1..Len(Alphabet) |->
              [j \in 1..Cardinality({i \in 1..Len(cb) : cb[i] = Alphabet[k]}) |-> Alphabet[k]]])

(* ui->TableView->model(): the table at position pos of Tables, or a table that
   Tables.remove took from the list while the view kept it (lost), or nullptr *)
ViewAt(k) == [pos |-> k, lost |-> <<>>]

NullView == ViewAt(0)

HasModel(v) == v.pos > 0 \/ v.lost # <<>>

ViewModel(T, v) == IF v.pos > 0 THEN T[v.pos] ELSE v.lost[1]

(* on_CBCastings_currentIndexChanged: the table shown for the current text *)
ShownTable(T, cb, idx) == ViewAt(FindTable(T, currentText(cb, idx)))

(* the view after Tables.remove of the table at position k (0: nothing removed) *)
ViewAfterRemove(T, v, k) ==
    IF k = 0 \/ v.pos = 0 \/ v.pos < k THEN v
    ELSE IF v.pos = k THEN [pos |-> 0, lost |-> <<T[k]>>]
    ELSE ViewAt(v.pos - 1)

(* QComboBox::removeItem of the current item: the current index afterwards *)
IndexAfterRemove(cb, idx) ==
    IF Len(cb) <= 1 THEN 0 ELSE IF idx > Len(cb) - 1 THEN Len(cb) - 1 ELSE idx

RemoveText(cb, idx) == SubSeq(cb, 1, idx - 1) \o SubSeq(cb, idx + 1, Len(cb))

-----------------------------------------------------------------------------
(* Groups of variables *)

treeVars == <<tree, cur, CloneMode, SourceClone>>
tableVars == <<Tables, NumTables, CBCastings, CBIndex, TableView>>
flagVars == <<Checked, Saved>>
fileVars == <<FileName, disk>>
runVars == <<GoOn, Eps, Output, runs>>

(* The process ends (a null or freed pointer is used, or an exception leaves a slot) *)
Crash == crashed' = TRUE

(* a setChecked that leaves Checked as it is *)
setCheckedKept(stat) == Checked' = Checked

(* Stox::setChecked, Stox::setSaved *)
setChecked(stat) == Checked' = stat

setSaved(stat) == Saved' = stat

-----------------------------------------------------------------------------
(* Casting tables: the slots of the buttons. text is ui->ENewCastName->text() *)

IsReserved(text) == text \in Range(TypeNames)

(* a selection of the text in the list that also takes the model for changed *)
SelectExistingUnsaving(text) ==
    /\ CBIndex' = findText(CBCastings, text)
    /\ TableView' = IF CBIndex' = CBIndex THEN TableView ELSE ShownTable(Tables, CBCastings, CBIndex')
    /\ setChecked(FALSE)
    /\ setSaved(FALSE)
    /\ UNCHANGED <<tree, cur, CloneMode, SourceClone, Tables, NumTables, CBCastings,
                   FileName, disk, GoOn, Eps, Output, runs, crashed>>

(* ui->CBCastings->setCurrentIndex(ind) for a text that is in the list *)
SelectExisting(text) ==
    /\ CBIndex' = findText(CBCastings, text)
    /\ TableView' = IF CBIndex' = CBIndex THEN TableView ELSE ShownTable(Tables, CBCastings, CBIndex')
    /\ UNCHANGED <<tree, cur, CloneMode, SourceClone, Tables, NumTables, CBCastings,
                   Checked, Saved, FileName, disk, GoOn, Eps, Output, runs, crashed>>

(* addItem, sort, findText, setCurrentIndex, setChecked(false), setSaved(false),
   with T the new list of tables *)
AddCasting(T, text) ==
    /\ Tables' = T
    /\ NumTables' = NumTables + 1
    /\ CBCastings' = SortTexts(Append(CBCastings, text))
    /\ CBIndex' = findText(CBCastings', text)
    /\ TableView' = ShownTable(T, CBCastings', CBIndex')
    /\ setChecked(FALSE)
    /\ setSaved(FALSE)
    /\ UNCHANGED <<treeVars, fileVars, runVars, crashed>>

on_BNewTable_clicked(text, rows, cols) ==
    /\ ~crashed
    /\ IF text = "" \/ IsReserved(text) THEN UNCHANGED progVars
       ELSE IF findText(CBCastings, text) > 0 THEN SelectExisting(text)
       ELSE /\ Len(Tables) < MaxTables
            /\ AddCasting(Append(Tables, FillZeroes(rows, cols, text)), text)

on_BDupliTable_clicked(text) ==
    /\ ~crashed
    /\ IF CBIndex = 0 \/ text = "" \/ IsReserved(text) THEN UNCHANGED progVars
       ELSE IF findText(CBCastings, text) > 0 THEN SelectExisting(text)
       ELSE /\ Len(Tables) < MaxTables
            /\ IF HasModel(TableView)
               THEN AddCasting(Append(Tables, FillFromCopy(ViewModel(Tables, TableView), text)), text)
               ELSE \* source is nullptr; dummy is in the list already
                    /\ Crash
                    /\ Tables' = Append(Tables, EmptyTable)
                    /\ NumTables' = NumTables + 1
                    /\ UNCHANGED <<treeVars, CBCastings, CBIndex, TableView, flagVars, fileVars, runVars>>

(* The clipboard: hasText, the numbers of tabs and of newlines of the text, and
   the numbers QTextStream reads from it one after the other (0 past its end) *)
RawOf(clip, n) == [i \in 1..n |-> IF i <= Len(clip.numbers) THEN clip.numbers[i] ELSE 0]

on_BPasteTable_clicked(text, clip) ==
    /\ ~crashed
    /\ IF text = "" \/ IsReserved(text) THEN UNCHANGED progVars
       ELSE IF findText(CBCastings, text) > 0 THEN SelectExisting(text)
       ELSE /\ Len(Tables) < MaxTables
            /\ IF clip.hasText /\ ~(clip.tabs < 2 \/ clip.newlines < 1)
               THEN LET r == clip.newlines
                        c == (clip.tabs + r) \div r
                        dummy == setName(FillFromRaw(EmptyTable, RawOf(clip, r * c), r, c), text)
                    IN  AddCasting(Append(Tables, dummy), text)
               ELSE \* "Clipboard contents not compatible": dummy stays in the list
                    /\ Tables' = Append(Tables, EmptyTable)
                    /\ NumTables' = NumTables + 1
                    /\ UNCHANGED <<treeVars, CBCastings, CBIndex, TableView, flagVars, fileVars, runVars, crashed>>

(* every stage whose casting is old gets casting new *)
Recast(t, old, new) == [k \in 1..Len(t) |-> IF t[k].cast = old THEN [t[k] EXCEPT !.cast = new] ELSE t[k]]

on_BRenameTable_clicked(text) ==
    /\ ~crashed
    /\ IF CBIndex = 0 \/ text = "" \/ IsReserved(text) THEN UNCHANGED progVars
       ELSE LET oldname == CBCastings[CBIndex]
                ind == findText(CBCastings, text)
            IN  IF ind > 0 /\ ind # CBIndex THEN UNCHANGED progVars
                ELSE /\ CBCastings' = SortTexts([CBCastings EXCEPT ![CBIndex] = text])
                     /\ CBIndex' = findText(CBCastings', text)
                     /\ IF ~HasModel(TableView)
                        THEN \* setName on nullptr
                             /\ Crash
                             /\ UNCHANGED <<treeVars, Tables, NumTables, TableView, flagVars, fileVars, runVars>>
                        ELSE /\ IF TableView.pos > 0
                                THEN /\ Tables' = [Tables EXCEPT ![TableView.pos] = setName(@, text)]
                                     /\ TableView' = TableView
                                ELSE /\ Tables' = Tables
                                     /\ TableView' = [TableView EXCEPT !.lost = <<setName(TableView.lost[1], text)>>]
                             /\ tree' = Recast(tree, oldname, text)
                             /\ setChecked(FALSE)
                             /\ setSaved(FALSE)
                             /\ UNCHANGED <<cur, CloneMode, SourceClone, NumTables, fileVars, runVars, crashed>>

(* yes: the answer to "Do you want to proceed?" / "Are you sure?" *)
on_BDelTable_clicked(yes) ==
    /\ ~crashed
    /\ IF CBIndex = 0 \/ ~yes THEN UNCHANGED progVars
       ELSE LET name == currentText(CBCastings, CBIndex)
                remTable == TableView.pos
                cb == RemoveText(CBCastings, CBIndex)
                idx == IndexAfterRemove(CBCastings, CBIndex)
                shown == ShownTable(Tables, cb, idx)
            IN  /\ CBCastings' = cb
                /\ CBIndex' = idx
                /\ Tables' = RemoveAt(Tables, remTable)
                /\ TableView' = ViewAfterRemove(Tables, shown, remTable)
                /\ NumTables' = NumTables - 1
                /\ tree' = Recast(tree, name, "")
                /\ setChecked(FALSE)
                /\ setSaved(FALSE)
                /\ UNCHANGED <<cur, CloneMode, SourceClone, fileVars, runVars, crashed>>

(* The user picks entry idx of the casting list: on_CBCastings_currentIndexChanged *)
on_CBCastings_currentIndexChanged(idx) ==
    /\ ~crashed
    /\ idx \in 1..Len(CBCastings)
    /\ idx # CBIndex
    /\ CBIndex' = idx
    /\ TableView' = ShownTable(Tables, CBCastings, idx)
    /\ UNCHANGED <<treeVars, Tables, NumTables, CBCastings, flagVars, fileVars, runVars, crashed>>

(* The user edits cell (r, c) of the table shown in the table view: setData *)
EditCell(r, c, value) ==
    /\ ~crashed
    /\ HasModel(TableView)
    /\ InTable(ViewModel(Tables, TableView), r, c)
    /\ IF TableView.pos > 0
       THEN /\ Tables' = [Tables EXCEPT ![TableView.pos] = setData(@, r, c, value)]
            /\ TableView' = TableView
       ELSE /\ Tables' = Tables
            /\ TableView' = [TableView EXCEPT !.lost = <<setData(TableView.lost[1], r, c, value)>>]
    /\ UNCHANGED <<treeVars, NumTables, CBCastings, CBIndex, flagVars, fileVars, runVars, crashed>>

-----------------------------------------------------------------------------
(* The stage tree: the slots of the buttons. text is ui->ENewNodeName->text(),
   NodeType the type last chosen with the radio buttons (on_RBNodeType*_toggled) *)

StageCast(NodeType) ==
    IF NodeType = 1 THEN currentText(CBCastings, CBIndex) ELSE TypeNames[NodeType + 1]

(* AddTreeChild(parent, name, cast, 0) *)
AddTreeChild(t, p, text, cast) == addChild(t, p, <<Item(0, text, cast, FALSE, NoID, Whole(0))>>)

(* an item pointer after addChild(t, p, s) *)
PtrAfterAdd(t, p, s, k) == IF k > 0 THEN AfterAdd(t, p, s, k) ELSE k

StageEdited(t) ==
    /\ tree' = t
    /\ setChecked(FALSE)
    /\ setSaved(FALSE)
    /\ UNCHANGED <<cur, CloneMode, SourceClone, tableVars, fileVars, runVars, crashed>>

StageAdded(p, text, cast) ==
    /\ Len(tree) < MaxNodes
    /\ tree' = AddTreeChild(tree, p, text, cast)
    /\ SourceClone' = PtrAfterAdd(tree, p, <<StartItem>>, SourceClone)
    /\ cur' = PtrAfterAdd(tree, p, <<StartItem>>, cur)
    /\ setChecked(FALSE)
    /\ setSaved(FALSE)
    /\ UNCHANGED <<CloneMode, tableVars, fileVars, runVars, crashed>>

on_BChild_clicked(text, NodeType) ==
    /\ ~crashed
    /\ IF cur = 0 \/ text = "" THEN UNCHANGED progVars
       ELSE StageAdded(cur, text, StageCast(NodeType))

on_BSibling_clicked(text, NodeType) ==
    /\ ~crashed
    /\ IF cur = 0 THEN UNCHANGED progVars
       ELSE IF parent(tree, cur) = 0 \/ text = "" THEN UNCHANGED progVars
       ELSE StageAdded(parent(tree, cur), text, StageCast(NodeType))

on_BRenameStage_clicked(text) ==
    /\ ~crashed
    /\ IF cur = 0 \/ text = "" THEN UNCHANGED progVars
       ELSE StageEdited([tree EXCEPT ![cur].name = text])

on_BSetCasting_clicked ==
    /\ ~crashed
    /\ IF cur = 0 \/ CBIndex = 0 THEN UNCHANGED progVars
       ELSE StageEdited([tree EXCEPT ![cur].cast = currentText(CBCastings, CBIndex)])

on_BSetType_clicked(NodeType) ==
    /\ ~crashed
    /\ IF cur = 0 THEN UNCHANGED progVars
       ELSE StageEdited([tree EXCEPT ![cur].cast = StageCast(NodeType)])

(* SourceClone->text(0) for a status message while CloneMode is set: the item
   may have been destroyed (Dangling), and reading it may end the process *)
ReadsSourceClone ==
    \/ UNCHANGED crashed
    \/ SourceClone = Dangling /\ Crash

(* on_TreeWid_currentItemChanged, lines 608-612: the casting list follows the
   casting of the new current item k (0: none) *)
FollowStage(t, k) ==
    LET ind == IF k = 0 THEN 0 ELSE findText(CBCastings, t[k].cast)
    IN  IF k # 0 /\ t[k].cast # "" /\ ind > 0 /\ ind # CBIndex
        THEN /\ CBIndex' = ind
             /\ TableView' = ShownTable(Tables, CBCastings, ind)
        ELSE UNCHANGED <<CBIndex, TableView>>

on_BRemoveNode_clicked(yes) ==
    /\ ~crashed
    /\ IF CloneMode
       THEN /\ ReadsSourceClone
            /\ UNCHANGED <<treeVars, tableVars, flagVars, fileVars, runVars>>
       ELSE IF cur = 0 \/ ~yes THEN UNCHANGED progVars
       ELSE /\ tree' = RemoveNode(tree, cur)
            /\ cur' = CurrentAfterRemove(tree, cur)
            /\ FollowStage(tree', cur')
            /\ setChecked(FALSE)
            /\ setSaved(FALSE)
            /\ UNCHANGED <<CloneMode, SourceClone, Tables, NumTables, CBCastings,
                           fileVars, runVars, crashed>>

(* ui->BCloneNode is a toggle that is checked exactly while CloneMode is set, so
   newCloneMode is ~CloneMode; SourceClone is read only while CloneMode is set
   and is kept 0 otherwise *)
on_BCloneNode_clicked ==
    /\ ~crashed
    /\ IF CloneMode
       THEN /\ ReadsSourceClone
            /\ CloneMode' = FALSE
            /\ SourceClone' = 0
            /\ UNCHANGED <<tree, cur, tableVars, flagVars, fileVars, runVars>>
       ELSE IF cur = 0
       THEN \* SourceClone->text(0) on nullptr
            /\ Crash
            /\ UNCHANGED <<treeVars, tableVars, flagVars, fileVars, runVars>>
       ELSE /\ SourceClone' = cur
            /\ CloneMode' = TRUE
            /\ setChecked(FALSE)
            /\ setSaved(FALSE)
            /\ UNCHANGED <<tree, cur, tableVars, fileVars, runVars, crashed>>

(* The user makes item current the current item *)
on_TreeWid_currentItemChanged(current) ==
    /\ ~crashed
    /\ current \in 1..Len(tree)
    /\ current # cur
    /\ IF CloneMode
       THEN IF SourceClone = Dangling
            THEN \* SourceClone->clone() on a destroyed item
                 /\ Crash
                 /\ UNCHANGED <<treeVars, tableVars, flagVars, fileVars, runVars>>
            ELSE /\ Len(tree) + Len(Subtree(tree, SourceClone)) <= MaxCloned
                 /\ tree' = addChild(tree, current, Subtree(tree, SourceClone))
                 /\ cur' = current
                 /\ CloneMode' = FALSE
                 /\ SourceClone' = 0
                 /\ UNCHANGED <<tableVars, flagVars, fileVars, runVars, crashed>>
       ELSE /\ cur' = current
            /\ FollowStage(tree, current)
            /\ UNCHANGED <<tree, CloneMode, SourceClone, Tables, NumTables, CBCastings,
                           flagVars, fileVars, runVars, crashed>>

(* the report mark of every item but the first one of the iterator *)
SetReports(t, show) ==
    [k \in 1..Len(t) |-> IF k = 1 THEN t[k] ELSE [t[k] EXCEPT !.report = show[k]]]

ReportsSet(t) ==
    /\ ~crashed
    /\ tree' = t
    /\ UNCHANGED <<cur, CloneMode, SourceClone, tableVars, flagVars, fileVars, runVars, crashed>>

on_BShowAll_clicked == ReportsSet(SetReports(tree, [k \in 1..Len(tree) |-> TRUE]))

on_BShowSuccess_clicked ==
    ReportsSet(SetReports(tree, [k \in 1..Len(tree) |-> tree[k].cast = "Success"]))

on_BShowNone_clicked == ReportsSet(SetReports(tree, [k \in 1..Len(tree) |-> FALSE]))

-----------------------------------------------------------------------------
(* The slots that call each other (check, save, new, open, run) are written as
   functions from the state before to the state after; castLog and box start
   empty in every step *)

NoBox == [kind |-> "", stage |-> 0, name |-> "", id |-> <<>>, n |-> 0, cols |-> 0, warnings |-> <<>>]

State ==
    [tree |-> tree, cur |-> cur, Tables |-> Tables, NumTables |-> NumTables,
     CBCastings |-> CBCastings, CBIndex |-> CBIndex, TableView |-> TableView,
     Checked |-> Checked, Saved |-> Saved, FileName |-> FileName, disk |-> disk,
     CloneMode |-> CloneMode, SourceClone |-> SourceClone, GoOn |-> GoOn, Eps |-> Eps,
     Output |-> Output, runs |-> runs, crashed |-> crashed,
     castLog |-> <<>>, box |-> NoBox]

Becomes(s) ==
    /\ tree' = s.tree /\ cur' = s.cur /\ Tables' = s.Tables /\ NumTables' = s.NumTables
    /\ CBCastings' = s.CBCastings /\ CBIndex' = s.CBIndex /\ TableView' = s.TableView
    /\ Checked' = s.Checked /\ Saved' = s.Saved /\ FileName' = s.FileName /\ disk' = s.disk
    /\ CloneMode' = s.CloneMode /\ SourceClone' = s.SourceClone /\ GoOn' = s.GoOn
    /\ Eps' = s.Eps /\ Output' = s.Output /\ runs' = s.runs /\ castLog' = s.castLog
    /\ box' = s.box /\ crashed' = s.crashed

Crashed(s) == [s EXCEPT !.crashed = TRUE]

-----------------------------------------------------------------------------
(* on_actionCheck_triggered *)

(* The message of lines 728-776 for item k, "" when the item passes *)
StageError(t, T, k) ==
    LET n == childCount(t, k)
        Casting == t[k].cast
        tb == FindTable(T, Casting)
    IN  IF n = 0 THEN (IF Casting # "Success" /\ Casting # "Sink" THEN "terminal" ELSE "")
        ELSE IF n = 1 THEN (IF Casting # "Direct" THEN "single" ELSE "")
        ELSE IF Casting = "Direct" \/ Casting = "Success" \/ Casting = "Sink" THEN "nocasting"
        ELSE IF tb # 0 /\ T[tb].mycols # n THEN "columns"
        ELSE ""

(* sum!=1.0 *)
LeaksAtAll(sum) == sum # Unit

(* fabs(1.0-sum)>0.001; the model has no sum at 0.001 from 1 exactly *)
Leaks(sum) == Abs(Unit - sum) * PerMille > Unit

(* the rows taken row number after row number, and table after table within a
   row number *)
LeakingRowsByRow(T) ==
    LET most == Max({0} \cup {T[k].myrows : k \in 1..Len(T)})
        has(e) == e[2] < T[e[1]].myrows /\ Leaks(sumCols(T[e[1]], e[2]))
    IN  Concat([r \in 1..most |-> SelectSeq([k \in 1..Len(T) |-> <<k, r - 1>>], has)])

(* The rows of the warnings of lines 782-800: <<position of the table, row>>,
   table after table and row after row *)
LeakingRows(T) ==
    LET all == Concat([k \in 1..Len(T) |-> [r \in 1..T[k].myrows |-> <<k, r - 1>>]])
        leaking(e) == Leaks(sumCols(T[e[1]], e[2]))
    IN  SelectSeq(all, leaking)

(* decline: the number of the warning the user answers with Cancel (0, or a
   number above that of the last warning: every warning is answered with Yes) *)
Check(s, decline) ==
    IF s.CloneMode THEN s
    ELSE IF s.tree = <<>> THEN Crashed([s EXCEPT !.Checked = FALSE])   \* IDMarkTree: (*it)->setText on nullptr
    ELSE
    LET t == IDMarkTree(s.tree)
        bad == {k \in 1..Len(t) : StageError(t, s.Tables, k) # ""}
        k == Min(bad)
        tb == FindTable(s.Tables, t[k].cast)
        W == LeakingRows(s.Tables)
        raised == IF decline = 0 \/ decline > Len(W) THEN W ELSE SubSeq(W, 1, decline)
        warned == [j \in 1..Len(raised) |-> <<s.Tables[raised[j][1]].name, raised[j][2] + 1>>]
        s1 == [s EXCEPT !.Checked = FALSE, !.tree = t]
    IN  IF bad # {}
        THEN IF s.cur = 0 THEN Crashed(s1)     \* currentItem()->setSelected on nullptr
             ELSE [s1 EXCEPT !.box = [kind |-> StageError(t, s.Tables, k), stage |-> k,
                                      name |-> t[k].name, id |-> t[k].id,
                                      n |-> childCount(t, k),
                                      cols |-> IF tb = 0 THEN 0 ELSE s.Tables[tb].mycols,
                                      warnings |-> <<>>]]
        ELSE [s1 EXCEPT !.TableView = IF raised = <<>> THEN @ ELSE ViewAt(raised[Len(raised)][1]),
                        !.Checked = ~(decline \in 1..Len(W)),
                        !.box = [NoBox EXCEPT !.kind = IF decline \in 1..Len(W) THEN "declined"
                                                       ELSE IF W = <<>> THEN "consistent"
                                                       ELSE "workable",
                                              !.warnings = warned]]

(* SourceClone->text(0) of line 715 reads a destroyed item when it dangles *)
on_actionCheck_triggered(decline) ==
    /\ ~crashed
    /\ \/ Becomes(Check(State, decline))
       \/ CloneMode /\ SourceClone = Dangling /\ Becomes(Crashed(State))

-----------------------------------------------------------------------------
(* The model file: on_actionSave_triggered, on_actionSave_as_triggered,
   on_actionNew_triggered, on_actionOpen_triggered *)

ModelFile == "model.sxm"

(* what QDataStream writes of a QTreeWidgetItem: its texts, its check mark and
   its data, not its children *)
ItemData(it) == [name |-> it.name, cast |-> it.cast, report |-> it.report, id |-> it.id, pop |-> it.pop]

(* Dump with the children given the level of their parent *)
RECURSIVE DumpFlat(_, _, _)
DumpFlat(t, i, n) ==
    <<[level |-> n, item |-> ItemData(t[i])] >>
        \o Concat([c \in 1..childCount(t, i) |-> DumpFlat(t, child(t, i, c - 1), n)])

(* Dump(node, n): DumpList.emplace_back(NodeData(n,&node)), then the children with n+1 *)
RECURSIVE Dump(_, _, _)
Dump(t, i, n) ==
    <<[level |-> n, item |-> ItemData(t[i])] >>
        \o Concat([c \in 1..childCount(t, i) |-> Dump(t, child(t, i, c - 1), n + 1)])

(* a table as written: name, rows, cols and the cells row after row *)
TableRecord(tbl) ==
    [name |-> tbl.name, rows |-> tbl.myrows, cols |-> tbl.mycols,
     values |-> Concat([r \in 1..tbl.myrows |-> [c \in 1..tbl.mycols |-> readCell(tbl, r - 1, c - 1)]])]

Written(t, T) == [stages |-> Dump(t, 1, 0), tables |-> [k \in 1..Len(T) |-> TableRecord(T[k])]]

(* lines 1005-1031, FileName not empty; ok: the file can be opened for writing *)
SaveNamed(s, ok) ==
    IF s.tree = <<>> THEN Crashed(s)      \* Dump(*topLevelItem(0)) on nullptr
    ELSE IF ok THEN [s EXCEPT !.disk = <<Written(s.tree, s.Tables)>>, !.Saved = TRUE]
    ELSE s

(* dlg: the name from QFileDialog::getSaveFileName, "" when the dialog is cancelled *)
SaveAs(s, dlg, ok) == IF dlg = "" THEN s ELSE SaveNamed([s EXCEPT !.FileName = dlg], ok)

Save(s, dlg, ok) == IF s.FileName = "" THEN SaveAs(s, dlg, ok) ELSE SaveNamed(s, ok)

(* ui->TreeWid->clear(): every item is destroyed *)
TreeCleared(s) ==
    [s EXCEPT !.tree = <<>>, !.cur = 0,
              !.SourceClone = IF s.CloneMode /\ @ # 0 THEN Dangling ELSE @]

(* save: the answer Yes to "Save?" *)
New(s, save, dlg, ok) ==
    LET s1 == IF ~s.Saved /\ save THEN Save(s, dlg, ok) ELSE s
    IN  IF s1.crashed THEN s1
        ELSE [TreeCleared(s1) EXCEPT !.FileName = "", !.tree = <<StartItem>>,
                                     !.Tables = <<>>, !.NumTables = 0,
                                     !.CBCastings = <<>>, !.CBIndex = 0, !.TableView = NullView,
                                     !.Saved = FALSE, !.Checked = FALSE]

(* lines 1105-1116: the items are taken from the back of DumpList; each becomes
   the first child of the nearest item before it that is one level up, and the
   first one that has no such item becomes the top level item and ends the loop.
   kids[j]: the children of item j of L so far; m: the length of DumpList *)
(* a rebuilding that puts each item after the children its parent has so far *)
RECURSIVE RebuildAppending(_, _, _)
RebuildAppending(L, m, kids) ==
    IF m = 0 THEN [root |-> 0, kids |-> kids]
    ELSE LET pl == L[m].level - 1
             P == {j \in 1..(m - 1) : L[j].level = pl}
         IN  IF P # {} THEN RebuildAppending(L, m - 1, [kids EXCEPT ![Max(P)] = @ \o <<m>>])
             ELSE [root |-> m, kids |-> kids]

RECURSIVE Rebuild(_, _, _)
Rebuild(L, m, kids) ==
    IF m = 0 THEN [root |-> 0, kids |-> kids]
    ELSE LET pl == L[m].level - 1
             P == {j \in 1..(m - 1) : L[j].level = pl}
         IN  IF P # {} THEN Rebuild(L, m - 1, [kids EXCEPT ![Max(P)] = <<m>> \o @])
             ELSE [root |-> m, kids |-> kids]

RECURSIVE Flatten(_, _, _, _)
Flatten(L, kids, m, depth) ==
    <<Item(depth, L[m].item.name, L[m].item.cast, L[m].item.report, L[m].item.id, L[m].item.pop)>>
        \o Concat([c \in 1..Len(kids[m]) |-> Flatten(L, kids, kids[m][c], depth + 1)])

LoadTree(L) ==
    LET b == Rebuild(L, Len(L), [j \in 1..Len(L) |-> <<>>])
    IN  IF b.root = 0 THEN <<>> ELSE Flatten(L, b.kids, b.root, 0)

(* lines 1084-1096 *)
LoadTable(rec) == FillFromRaw(setName(EmptyTable, rec.name), rec.values, rec.rows, rec.cols)

(* a load that leaves Checked as it is *)
LoadKeepingChecked(s, f) ==
    LET T == [k \in 1..Len(f.tables) |-> LoadTable(f.tables[k])]
        tablenames == [k \in 1..Len(f.tables) |-> f.tables[k].name]
        cb == SortTexts(tablenames)
    IN  [TreeCleared(s) EXCEPT !.tree = LoadTree(f.stages),
                               !.Tables = T, !.NumTables = Len(f.tables),
                               !.CBCastings = cb,
                               !.CBIndex = IF tablenames = <<>> THEN 0 ELSE findText(cb, tablenames[1]),
                               !.TableView = IF tablenames = <<>> THEN NullView
                                             ELSE ViewAt(FindTable(T, tablenames[1])),
                               !.FileName = ModelFile, !.Saved = TRUE,
                               !.box = [NoBox EXCEPT !.kind = "opened"]]

(* lines 1061-1127 for a file that opens, with content f; the status bar says
   "successfully opened" *)
Load(s, f) ==
    LET T == [k \in 1..Len(f.tables) |-> LoadTable(f.tables[k])]
        tablenames == [k \in 1..Len(f.tables) |-> f.tables[k].name]
        cb == SortTexts(tablenames)
    IN  [TreeCleared(s) EXCEPT !.tree = LoadTree(f.stages),
                               !.Tables = T, !.NumTables = Len(f.tables),
                               !.CBCastings = cb,
                               !.CBIndex = IF tablenames = <<>> THEN 0 ELSE findText(cb, tablenames[1]),
                               !.TableView = IF tablenames = <<>> THEN NullView
                                             ELSE ViewAt(FindTable(T, tablenames[1])),
                               !.FileName = ModelFile, !.Saved = TRUE, !.Checked = FALSE,
                               !.box = [NoBox EXCEPT !.kind = "opened"]]

(* lines 1129-1132: the file does not open; the status bar says "Could not open
   model" and on_actionNew_triggered is called on the cleared tree *)
NotOpened(s, save, dlg, ok) ==
    [New(TreeCleared(s), save, dlg, ok) EXCEPT !.box = [NoBox EXCEPT !.kind = "unopened"]]

(* ans: the answer to "Save?" ("Yes", "No", "Cancel"); pick: a file is chosen in
   the open dialog; ok: the files can be opened; save: the answer Yes to the
   "Save?" of on_actionNew_triggered *)
Open(s, ans, dlg, pick, ok, save) ==
    LET s1 == IF ~s.Saved /\ ans = "Yes" THEN Save(s, dlg, ok) ELSE s
    IN  IF ~s.Saved /\ ans = "Cancel" THEN s
        ELSE IF s1.crashed \/ ~pick THEN s1
        ELSE IF ok /\ s1.disk # <<>> THEN Load(s1, s1.disk[1])
        ELSE NotOpened(s1, save, dlg, ok)

on_actionSave_triggered(dlg, ok) == ~crashed /\ Becomes(Save(State, dlg, ok))

on_actionSave_as_triggered(dlg, ok) == ~crashed /\ Becomes(SaveAs(State, dlg, ok))

on_actionNew_triggered(save, dlg, ok) == ~crashed /\ Becomes(New(State, save, dlg, ok))

on_actionOpen_triggered(ans, dlg, pick, ok, save) ==
    ~crashed /\ Becomes(Open(State, ans, dlg, pick, ok, save))

-----------------------------------------------------------------------------
(* Cast *)

(* the larger of f and Eps *)
FloorMax(f, eps) == IF f > eps THEN f ELSE eps

(* (f>0.0?f:Eps) *)
Floor(f, eps) == IF f > 0 THEN f ELSE eps

(* lines 927-932: r is readRows(), replaced by a number drawn from 0..r-1 only
   when r>1 *)
RowUsed(rows, drawn) == IF rows > 1 THEN drawn ELSE rows

(* what Cast did at a child of a caster stage: the row and column given to
   readCell, whether they are inside the table, the value read, the population
   n of the stage and the population passed to the child *)
CastEntry(stage, tbl, r, c, eps, n) ==
    LET inside == InTable(tbl, r, c)
        f == IF inside THEN readCell(tbl, r, c) ELSE 0
    IN  [stage |-> stage, table |-> tbl.name, rows |-> tbl.myrows, drew |-> tbl.myrows > 1,
         r |-> r, c |-> c, inside |-> inside, f |-> f, eps |-> eps, n |-> n,
         out |-> IF inside THEN Times(n, Floor(f, eps)) ELSE Whole(0)]

(* st: the tree with the populations set so far (t), whether the call is still
   running (ok: no exception, no null item), and the entries so far (log).
   pick[i]: the number the generator gives at stage i *)
RECURSIVE Cast(_, _, _, _, _, _)
RECURSIVE CastChildren(_, _, _, _, _, _, _, _, _)
Cast(st, T, eps, pick, node, n) ==
    IF ~st.ok THEN st
    ELSE IF node = 0 THEN [st EXCEPT !.ok = FALSE]        \* *node.child(0) of a stage without children
    ELSE LET st1 == [st EXCEPT !.t[node].pop = n]
             Casting == st.t[node].cast
             tb == FindTable(T, Casting)
         IN  IF Casting = "Success" \/ Casting = "Sink" THEN st1
             ELSE IF Casting = "Direct" THEN Cast(st1, T, eps, pick, child(st.t, node, 0), n)
             ELSE IF tb = 0 THEN st1
             ELSE CastChildren(st1, T, eps, pick, node, n, tb, RowUsed(T[tb].myrows, pick[node]), 0)

CastChildren(st, T, eps, pick, node, n, tb, r, c) ==
    IF ~st.ok \/ c >= childCount(st.t, node) THEN st
    ELSE LET e == CastEntry(node, T[tb], r, c, eps, n)
             st1 == [st EXCEPT !.log = Append(@, e)]
         IN  IF ~e.inside THEN [st1 EXCEPT !.ok = FALSE]   \* readCell throws std::out_of_range
             ELSE CastChildren(Cast(st1, T, eps, pick, child(st.t, node, c), e.out),
                               T, eps, pick, node, n, tb, r, c + 1)

(* The numbers the generator can give at the stages of t *)
RowsAt(t, T, i) ==
    LET tb == FindTable(T, t[i].cast) IN IF tb = 0 THEN 0 ELSE T[tb].myrows

Picks(t, T) ==
    LET most == Max({1} \cup {T[k].myrows : k \in 1..Len(T)})
    IN  {p \in [1..Len(t) -> 0..(most - 1)] :
            \A i \in 1..Len(t) : p[i] = 0 \/ p[i] < RowsAt(t, T, i)}

-----------------------------------------------------------------------------
(* OutTableModel: a cell is a text; kind tells how the text was made *)

OutCell(kind, text, value, id) == [kind |-> kind, text |-> text, value |-> value, id |-> id]

Blank == OutCell("", "", Whole(0), NoID)

Text(text) == OutCell("text", text, Whole(0), NoID)

(* QString::number(x): exact for the numbers of the model *)
Number(x) == OutCell("number", "", x, NoID)

IDText(id) == OutCell("id", "", Whole(0), id)

(* QString("%1").arg(i,4) *)
IterText(i) == OutCell("iter", "", Whole(i), NoID)

(* QString("%1").arg(x,10,'f',3): x >= 0 rounded to three decimals *)
Fixed3(x) ==
    LET whole == x.num \div x.den
        rest == x.num % x.den
        th == whole * PerMille + (2 * rest * PerMille + x.den) \div (2 * x.den)
    IN  OutCell("fixed3", "", Rat(th, PerMille), NoID)

Init_Output(rows, cols) ==
    [myrows |-> rows, mycols |-> cols, rawdata |-> [r \in 1..rows |-> [c \in 1..cols |-> Blank]]]

(* rawdata.at(r).at(c) *)
InOutput(out, r, c) ==
    /\ r >= 0 /\ r < Len(out.rawdata)
    /\ c >= 0 /\ c < Len(out.rawdata[r + 1])

setCell(out, r, c, v) == [out EXCEPT !.rawdata[r + 1][c + 1] = v]

RECURSIVE setCells(_, _, _, _)
setCells(out, r, c, vs) ==
    IF vs = <<>> THEN out ELSE setCells(setCell(out, r, c, Head(vs)), r, c + 1, Tail(vs))

(* the items with checkState(2)==Qt::Checked, in iterator order *)
Reported(t) == SelectIdx(t, 1, {k \in 1..Len(t) : t[k].report})

-----------------------------------------------------------------------------
(* on_actionRun_triggered *)

(* lines 881-897: iteration i of a run with initial population N *)
Iteration(s, i, N, pick) ==
    LET out == s.Output[1]
        o1 == setCell(out, i + 2, 0, IterText(i))
        c == Cast([t |-> s.tree, ok |-> TRUE, log |-> <<>>], s.Tables, s.Eps, pick, 1, N)
        rep == Reported(c.t)
        s1 == [s EXCEPT !.Output = <<o1>>, !.tree = c.t, !.castLog = c.log]
    IN  IF ~InOutput(out, i + 2, 0) THEN Crashed(s)         \* setCell throws
        ELSE IF s.tree = <<>> THEN Crashed([s EXCEPT !.Output = <<o1>>])
        ELSE IF ~c.ok THEN Crashed(s1)
        ELSE IF ~InOutput(o1, i + 2, Len(rep)) THEN Crashed(s1)    \* setCell throws
        ELSE [s1 EXCEPT !.Output = <<setCells(o1, i + 2, 1, [j \in 1..Len(rep) |-> Fixed3(c.t[rep[j]].pop)])>>]

(* lines 834-874: the output table and its header *)
Header(t, N, eps, Iters) ==
    LET rep == Reported(t)
        cols == IF Len(rep) + 1 < 5 THEN 5 ELSE Len(rep) + 1
        o0 == Init_Output(Iters + 3, cols)
        o1 == setCell(setCell(setCell(setCell(setCell(o0, 0, 1, Text("Initial")), 0, 2, Number(N)),
                                      0, 3, Text("Eps")), 0, 4, Number(Rat(eps, Unit))), 2, 0, Text("Iter"))
        o2 == setCells(o1, 1, 1, [j \in 1..Len(rep) |-> IDText(t[rep[j]].id)])
    IN  setCells(o2, 2, 1, [j \in 1..Len(rep) |-> Text(t[rep[j]].name)])

(* lines 810-832. save, check: the answers Yes to "Save?" and to "Check or
   cancel?", asked when Saved, Checked are not set *)
Asked(s, save, dlg, ok, check, decline) ==
    LET s1 == IF ~s.Saved /\ save THEN Save(s, dlg, ok) ELSE s
    IN  IF s1.crashed THEN s1
        ELSE IF ~s1.Checked /\ check THEN Check(s1, decline) ELSE s1

(* a run that does not ask for Checked *)
ProceedsUnchecked(s) == ~s.crashed

(* a run that asks for Saved as well *)
ProceedsSaved(s) == ~s.crashed /\ s.Checked /\ s.Saved

(* if(!Checked) return; *)
Proceeds(s) == ~s.crashed /\ s.Checked

(* lines 834-902 up to the first processEvents. N, Iters, eps: the numbers in
   EInitial, EIters and EEps. The slot is left in processEvents after the first
   iteration (an activation is added to runs) or at its end *)
Started(s, N, Iters, eps, pick) ==
    LET s3 == [s EXCEPT !.Eps = eps, !.Output = <<Header(s.tree, N, eps, Iters)>>, !.GoOn = TRUE]
    IN  IF 1 <= Iters
        THEN LET s4 == Iteration(s3, 1, N, pick)
             IN  IF s4.crashed THEN s4
                 ELSE [s4 EXCEPT !.runs = Append(@, [i |-> 1, Iters |-> Iters, N |-> N])]
        ELSE s3

Run(s, save, dlg, ok, check, decline, N, Iters, eps, pick) ==
    LET a == Asked(s, save, dlg, ok, check, decline)
    IN  IF Proceeds(a) THEN Started(a, N, Iters, eps, pick) ELSE a

(* a loop that does not look at GoOn *)
GoesOnRegardless(s) ==
    LET f == s.runs[Len(s.runs)] IN f.i + 1 <= f.Iters

(* the loop after processEvents: ++i, then i<=Iters&&GoOn *)
GoesOn(s) ==
    LET f == s.runs[Len(s.runs)] IN f.i + 1 <= f.Iters /\ s.GoOn

NextIteration(s, pick) ==
    LET f == s.runs[Len(s.runs)]
        s1 == Iteration(s, f.i + 1, f.N, pick)
    IN  IF s1.crashed THEN s1 ELSE [s1 EXCEPT !.runs[Len(s.runs)].i = f.i + 1]

Returns(s) == [s EXCEPT !.runs = SubSeq(@, 1, Len(@) - 1)]

(* Ns, Its, Es: the numbers the user may have entered; they are read when the
   run proceeds *)
on_actionRun_triggered(save, dlg, ok, check, decline, Ns, Its, Es) ==
    /\ ~crashed
    /\ Len(runs) < MaxRuns
    /\ \/ IF Proceeds(Asked(State, save, dlg, ok, check, decline))
          THEN \E N \in Ns, Iters \in Its, eps \in Es, pick \in Picks(tree, Tables) :
                  Becomes(Run(State, save, dlg, ok, check, decline, N, Iters, eps, pick))
          ELSE Becomes(Asked(State, save, dlg, ok, check, decline))
       \/ /\ ~Checked /\ check /\ CloneMode /\ SourceClone = Dangling
          /\ Becomes(Crashed(State))

RunIterates ==
    /\ ~crashed
    /\ runs # <<>>
    /\ GoesOn(State)
    /\ \E pick \in Picks(tree, Tables) : Becomes(NextIteration(State, pick))

RunReturns ==
    /\ ~crashed
    /\ runs # <<>>
    /\ ~GoesOn(State)
    /\ Becomes(Returns(State))

on_BCancel_clicked ==
    /\ ~crashed
    /\ GoOn' = FALSE
    /\ UNCHANGED <<treeVars, tableVars, flagVars, fileVars, Eps, Output, runs, crashed>>

-----------------------------------------------------------------------------
(* The program: what the user can enter, and the state after Stox::Stox *)

StageNames == {"", "a"}
CastingNames == {"", "Direct", "Success", "Sink", "T", "U"}
RowCounts == {1, 2}
ColCounts == {2}
CellValues == {0 - Unit \div 2, 0, Unit \div 2, Unit, 3 * (Unit \div 2)}
Clipboards ==
    { [hasText |-> FALSE, tabs |-> 0, newlines |-> 0, numbers |-> <<>>],
      [hasText |-> TRUE, tabs |-> 2, newlines |-> 2, numbers |-> <<Unit, 0, Unit \div 2, Unit \div 2>>],
      [hasText |-> TRUE, tabs |-> 2, newlines |-> 2, numbers |-> <<2 * Unit, Unit, Unit \div 2, Unit \div 2>>] }
FileNames == {"", ModelFile}
Populations == {Whole(100)}
EpsValues == {0, 2}
Answers == {"Yes", "No", "Cancel"}
Declines == {0, 1, 2}

(* The answers to "Save?" with what follows a Yes: the name given in the save
   dialog and whether the file can be written. Without a Yes neither is used.
   A prompt that is not shown is not answered: the steps below give the
   answer No, and no input to a dialog that does not open *)
SaveAnswers ==
    {a \in [save : BOOLEAN, dlg : FileNames, ok : BOOLEAN] : ~a.save => a.dlg = "" /\ ~a.ok}

(* The answers to "Check or cancel?" with the warning declined in the check *)
CheckAnswers ==
    {a \in [check : BOOLEAN, decline : Declines] : ~a.check => a.decline = 0}

(* Stox::Stox *)
Constructed ==
    /\ tree = <<StartItem>>
    /\ cur = 0
    /\ Tables = <<>>
    /\ NumTables = 0
    /\ CBCastings = <<>>
    /\ CBIndex = 0
    /\ TableView = NullView
    /\ Checked = FALSE
    /\ Saved = TRUE
    /\ FileName = ""
    /\ CloneMode = FALSE
    /\ SourceClone = 0
    /\ GoOn \in BOOLEAN          \* not set by the constructor
    /\ Eps = 0                   \* not set by the constructor, not read before a run sets it
    /\ Output = <<>>

NoStep ==
    /\ runs = <<>>
    /\ crashed = FALSE
    /\ castLog = <<>>
    /\ box = NoBox
    /\ slot = ""
    /\ was = [Checked |-> Checked, Saved |-> Saved]

Init == Constructed /\ disk = <<>> /\ NoStep /\ left = MaxSteps

(* A step of the program: a slot runs, or a run goes on after processEvents *)
Recorded(name) ==
    /\ left > 0
    /\ left' = left - 1
    /\ slot' = name
    /\ was' = [Checked |-> Checked, Saved |-> Saved]

Quiet == castLog' = <<>> /\ box' = NoBox

NewTable ==
    /\ Recorded("on_BNewTable_clicked") /\ Quiet
    /\ \E text \in CastingNames, rows \in RowCounts, cols \in ColCounts : on_BNewTable_clicked(text, rows, cols)
DupliTable ==
    /\ Recorded("on_BDupliTable_clicked") /\ Quiet
    /\ \E text \in CastingNames : on_BDupliTable_clicked(text)
PasteTable ==
    /\ Recorded("on_BPasteTable_clicked") /\ Quiet
    /\ \E text \in CastingNames, clip \in Clipboards : on_BPasteTable_clicked(text, clip)
RenameTable ==
    /\ Recorded("on_BRenameTable_clicked") /\ Quiet
    /\ \E text \in CastingNames : on_BRenameTable_clicked(text)
DelTable ==
    /\ Recorded("on_BDelTable_clicked") /\ Quiet
    /\ \E yes \in BOOLEAN : on_BDelTable_clicked(yes)
SelectCasting ==
    /\ Recorded("on_CBCastings_currentIndexChanged") /\ Quiet
    /\ \E idx \in 1..MaxTables : on_CBCastings_currentIndexChanged(idx)
SetCell ==
    /\ Recorded("setData") /\ Quiet
    /\ \E r \in 0..1, c \in 0..1, v \in CellValues : EditCell(r, c, v)
Child ==
    /\ Recorded("on_BChild_clicked") /\ Quiet
    /\ \E text \in StageNames, ty \in 0..3 : on_BChild_clicked(text, ty)
Sibling ==
    /\ Recorded("on_BSibling_clicked") /\ Quiet
    /\ \E text \in StageNames, ty \in 0..3 : on_BSibling_clicked(text, ty)
RenameStage ==
    /\ Recorded("on_BRenameStage_clicked") /\ Quiet
    /\ \E text \in StageNames : on_BRenameStage_clicked(text)
SetCasting == Recorded("on_BSetCasting_clicked") /\ Quiet /\ on_BSetCasting_clicked
SetType ==
    /\ Recorded("on_BSetType_clicked") /\ Quiet
    /\ \E ty \in 0..3 : on_BSetType_clicked(ty)
RemoveStage ==
    /\ Recorded("on_BRemoveNode_clicked") /\ Quiet
    /\ \E yes \in BOOLEAN : on_BRemoveNode_clicked(yes)
CloneStage == Recorded("on_BCloneNode_clicked") /\ Quiet /\ on_BCloneNode_clicked
SelectStage ==
    /\ Recorded("on_TreeWid_currentItemChanged") /\ Quiet
    /\ \E k \in 1..MaxCloned : on_TreeWid_currentItemChanged(k)
ShowAll == Recorded("on_BShowAll_clicked") /\ Quiet /\ on_BShowAll_clicked
ShowSuccess == Recorded("on_BShowSuccess_clicked") /\ Quiet /\ on_BShowSuccess_clicked
ShowNone == Recorded("on_BShowNone_clicked") /\ Quiet /\ on_BShowNone_clicked
CheckModel ==
    /\ Recorded("on_actionCheck_triggered")
    /\ \E d \in Declines : on_actionCheck_triggered(d)
SaveModel ==
    /\ Recorded("on_actionSave_triggered")
    /\ \E dlg \in FileNames, ok \in BOOLEAN : on_actionSave_triggered(dlg, ok)
SaveModelAs ==
    /\ Recorded("on_actionSave_as_triggered")
    /\ \E dlg \in FileNames, ok \in BOOLEAN : on_actionSave_as_triggered(dlg, ok)
NewModel ==
    /\ Recorded("on_actionNew_triggered")
    /\ \E sv \in SaveAnswers :
          /\ Saved => ~sv.save
          /\ on_actionNew_triggered(sv.save, sv.dlg, sv.ok)
OpenModel ==
    /\ Recorded("on_actionOpen_triggered")
    /\ \E ans \in Answers, dlg \in FileNames, pick \in BOOLEAN, ok \in BOOLEAN, save \in BOOLEAN :
          /\ Saved => ans = "No"
          /\ ans = "Cancel" => dlg = "" /\ ~pick /\ ~ok
          /\ ~pick => ~save
          /\ on_actionOpen_triggered(ans, dlg, pick, ok, save)
RunModel ==
    /\ Recorded("on_actionRun_triggered")
    /\ \E sv \in SaveAnswers, ck \in CheckAnswers :
          /\ Saved => ~sv.save
          /\ Checked => ~ck.check
          /\ on_actionRun_triggered(sv.save, sv.dlg, sv.ok, ck.check, ck.decline,
                                    Populations, 0..MaxIters, EpsValues)
RunGoesOn == Recorded("iterate") /\ RunIterates
RunEnds == Recorded("return") /\ RunReturns
Cancel == Recorded("on_BCancel_clicked") /\ Quiet /\ on_BCancel_clicked

Next ==
    \/ NewTable \/ DupliTable \/ PasteTable \/ RenameTable \/ DelTable \/ SelectCasting
    \/ SetCell \/ Child \/ Sibling \/ RenameStage \/ SetCasting \/ SetType \/ RemoveStage
    \/ CloneStage \/ SelectStage \/ ShowAll \/ ShowSuccess \/ ShowNone \/ CheckModel
    \/ SaveModel \/ SaveModelAs \/ NewModel \/ OpenModel \/ RunModel \/ RunGoesOn
    \/ RunEnds \/ Cancel

Spec == Init /\ [][Next]_vars

-----------------------------------------------------------------------------
(* Models put together with the slots above and saved, then checked and run *)

SampleCasts == {"Direct", "Success", "Sink", "T"}

(* the levels of the items of a tree in iterator order *)
IsShape(L) ==
    /\ L[1] = 0
    /\ \A i \in 2..Len(L) : L[i] >= 1 /\ L[i] <= L[i - 1] + 1

(* on_BChild_clicked, on_BSibling_clicked and on_BSetType_clicked give every
   tree of up to MaxNodes stages with these castings *)
SmallTrees ==
    UNION {{[k \in 1..n |-> Item(f[k].level, IF k = 1 THEN "Start" ELSE "a", f[k].cast,
                                 FALSE, NoID, Whole(0))] :
              f \in {g \in [1..n -> [level : 0..(n - 1), cast : SampleCasts]] :
                        IsShape([k \in 1..n |-> g[k].level])}} :
           n \in 1..MaxNodes}

(* Start -> A -> B -> {C, D} *)
Chain ==
    <<Item(0, "Start", "Direct", FALSE, NoID, Whole(0)),
      Item(1, "A", "Direct", FALSE, NoID, Whole(0)),
      Item(2, "B", "T", FALSE, NoID, Whole(0)),
      Item(3, "C", "Success", FALSE, NoID, Whole(0)),
      Item(3, "D", "Sink", FALSE, NoID, Whole(0))>>

(* on_BShowAll_clicked *)
AllShown(t) == SetReports(t, [k \in 1..Len(t) |-> TRUE])

SampleTrees == {Chain} \cup {AllShown(t) : t \in SmallTrees \cup {Chain}}

(* on_BNewTable_clicked and setData cell after cell give every table whose
   rows sum to 1 at most *)
TableOf(nam, rows) ==
    [name |-> nam, myrows |-> Len(rows), mycols |-> Len(rows[1]), rawdata |-> rows]

Half == Unit \div 2

SampleTables ==
    { <<>>,
      <<TableOf("T", <<<<Half, Half>>>>)>>,
      <<TableOf("T", <<<<0, Unit>>>>)>>,
      <<TableOf("T", <<<<Half, Half>>, <<0, Unit>>>>)>>,
      <<TableOf("T", <<<<1, Unit - 1>>, <<Unit, 0>>>>)>>,
      <<TableOf("T", <<<<Half, Half - 1>>, <<Unit, 0>>>>)>>,
      <<TableOf("T", <<<<0, Half, Half>>>>)>>,
      <<TableOf("T", <<<<Half, Half>>, <<Unit, 0>>>>), TableOf("U", <<<<Half, 0>>>>)>> }

(* on_BDelTable_clicked: the stages whose casting was a table that is no longer
   there have no casting *)
Unassigned(t, T) ==
    [k \in 1..Len(t) |->
        IF t[k].cast \in Range(TypeNames) \/ FindTable(T, t[k].cast) # 0 THEN t[k]
        ELSE [t[k] EXCEPT !.cast = ""]]

Assembled ==
    /\ Tables \in SampleTables
    /\ tree \in {Unassigned(t, Tables) : t \in SampleTrees}
    /\ cur \in {0, 1}           \* no current item after on_actionOpen_triggered
    /\ NumTables = Len(Tables)
    /\ CBCastings = SortTexts([k \in 1..Len(Tables) |-> Tables[k].name])
    /\ CBIndex = Len(Tables)
    /\ TableView = ShownTable(Tables, CBCastings, CBIndex)
    /\ Checked = FALSE
    /\ Saved = TRUE             \* on_actionSave_triggered
    /\ FileName = ModelFile
    /\ disk = <<Written(tree, Tables)>>
    /\ CloneMode \in (IF tree = Unassigned(Chain, Tables) /\ cur = 1 THEN BOOLEAN ELSE {FALSE})    \* on_BCloneNode_clicked
    /\ SourceClone = (IF CloneMode THEN cur ELSE 0)
    /\ GoOn = FALSE             \* not read before a run sets it
    /\ Eps = 0
    /\ Output = <<>>
    /\ NoStep
    /\ left = MaxSteps

NextRun == CheckModel \/ RunModel \/ RunGoesOn \/ RunEnds \/ Cancel

SpecRun == Assembled /\ [][NextRun]_vars

-----------------------------------------------------------------------------
(* Models that have been checked and found consistent, and what the user does
   next; the session takes MaxLater steps more *)

Direct2 ==
    <<Item(0, "Start", "Direct", FALSE, NoID, Whole(0)),
      Item(1, "a", "Success", FALSE, NoID, Whole(0))>>

Caster3 ==
    <<Item(0, "Start", "T", FALSE, NoID, Whole(0)),
      Item(1, "a", "Success", FALSE, NoID, Whole(0)),
      Item(1, "a", "Sink", FALSE, NoID, Whole(0))>>

(* two stages under a Start that names no casting table: the check passes it *)
Fork0 ==
    <<Item(0, "Start", "", FALSE, NoID, Whole(0)),
      Item(1, "a", "Success", FALSE, NoID, Whole(0)),
      Item(1, "a", "Sink", FALSE, NoID, Whole(0))>>

(* the tables of the checked model: T alone, or T after a table U whose
   second row loses half of the individuals (the check has warned of it, the
   warning was acknowledged and T was selected again) *)
Sound == <<TableOf("T", <<<<Half, Half>>, <<0, Unit>>>>)>>

Workable == <<TableOf("U", <<<<Half, Half>>, <<Half, 0>>>>)>> \o Sound

Validated ==
    /\ tree \in {IDMarkTree(Direct2), IDMarkTree(Caster3), IDMarkTree(Fork0)}      \* on_actionCheck_triggered
    /\ cur \in 1..Len(tree)
    /\ Tables \in {Sound, Workable}
    /\ NumTables = Len(Tables)
    /\ CBCastings = (IF Tables = Sound THEN <<"T">> ELSE <<"T", "U">>)
    /\ CBIndex = 1
    /\ TableView = ViewAt(Len(Tables))
    /\ Checked = TRUE
    /\ Saved \in BOOLEAN
    /\ FileName = (IF Saved THEN ModelFile ELSE "")
    /\ disk = (IF Saved THEN <<Written(tree, Tables)>> ELSE <<>>)
    /\ CloneMode = FALSE
    /\ SourceClone = 0
    /\ GoOn = FALSE
    /\ Eps = 0
    /\ Output = <<>>
    /\ NoStep
    /\ left = MaxLater

SpecEdit == Validated /\ [][Next]_vars

-----------------------------------------------------------------------------
(* The run loop goes on by itself: when processEvents returns, the loop makes
   its next iteration or the slot returns, whether or not the user does
   anything more. These two steps are not counted among those of the session
   and are taken whenever they can be *)

Proceeding(name) ==
    /\ slot' = name
    /\ was' = [Checked |-> Checked, Saved |-> Saved]
    /\ UNCHANGED left

LoopIterates == Proceeding("iterate") /\ RunIterates

LoopReturns == Proceeding("return") /\ RunReturns

NextLive == CheckModel \/ RunModel \/ Cancel \/ LoopIterates \/ LoopReturns

(* the models Start -> {a Success, a Sink} among those put together above,
   Start with the casting T where there is a table T, with every list of
   casting tables *)
AssembledFork ==
    /\ Assembled
    /\ [k \in 1..Len(tree) |-> <<tree[k].level, tree[k].cast>>]
          \in {<<<<0, c>>, <<1, "Success">>, <<1, "Sink">>>> : c \in {"T", ""}}
    /\ cur = 1

SpecLive ==
    AssembledFork /\ [][NextLive]_vars /\ WF_vars(LoopIterates) /\ WF_vars(LoopReturns)

-----------------------------------------------------------------------------
(* A run of a checked and saved model is under way: it has made its first
   iteration and is in processEvents, where every slot can be called; the
   session takes MaxLater steps more *)

(* the state in which the model t, checked and saved, rests with item c current *)
Rested(t, c) ==
    LET T == <<TableOf("T", <<<<Half, Half>>, <<0, Unit>>>>)>>
    IN  [tree |-> t, cur |-> c, Tables |-> T, NumTables |-> 1,
         CBCastings |-> <<"T">>, CBIndex |-> 1, TableView |-> ViewAt(1),
         Checked |-> TRUE, Saved |-> TRUE, FileName |-> ModelFile, disk |-> <<Written(t, T)>>,
         CloneMode |-> FALSE, SourceClone |-> 0, GoOn |-> FALSE, Eps |-> 0,
         Output |-> <<>>, runs |-> <<>>, crashed |-> FALSE,
         castLog |-> <<>>, box |-> NoBox]

CheckedTrees == {IDMarkTree(Direct2), IDMarkTree(Caster3), AllShown(IDMarkTree(Caster3))}

(* the states after the first iteration of a run of N = 100 *)
Underway ==
    UNION {{Started(Rested(t, c), Whole(100), Iters, eps, pick) :
               pick \in Picks(t, Rested(t, c).Tables), Iters \in 1..MaxIters, eps \in EpsValues} :
           t \in CheckedTrees, c \in {1, 2}}

InProgress ==
    \E s \in Underway :
        /\ tree = s.tree /\ cur = s.cur /\ Tables = s.Tables /\ NumTables = s.NumTables
        /\ CBCastings = s.CBCastings /\ CBIndex = s.CBIndex /\ TableView = s.TableView
        /\ Checked = s.Checked /\ Saved = s.Saved /\ FileName = s.FileName
        /\ disk = s.disk /\ CloneMode = s.CloneMode /\ SourceClone = s.SourceClone
        /\ GoOn = s.GoOn /\ Eps = s.Eps /\ Output = s.Output /\ runs = s.runs
        /\ crashed = s.crashed /\ castLog = s.castLog /\ box = s.box
        /\ slot = "on_actionRun_triggered"
        /\ was = [Checked |-> TRUE, Saved |-> TRUE]
        /\ left = MaxLater

SpecBusy == InProgress /\ [][Next]_vars

-----------------------------------------------------------------------------
(* What the claims below read from a state *)

RunSlot == "on_actionRun_triggered"

CheckSlot == "on_actionCheck_triggered"

Pops(t) == [k \in 1..Len(t) |-> t[k].pop]

(* shape, stage names and castings of a tree *)
Stages(t) == [k \in 1..Len(t) |-> <<t[k].level, t[k].name, t[k].cast>>]

IsType(cast) == cast \in {"Direct", "Success", "Sink"}

(* the step was a run that went past the prompts and made its first iteration,
   or the next iteration of a run *)
Iterated ==
    \/ slot = RunSlot /\ Checked /\ Output # <<>> /\ Output[1].myrows > 3 /\ Eps \in EpsValues
                      /\ (runs # <<>> \/ crashed)
    \/ slot = "iterate"

-----------------------------------------------------------------------------
(* The trees and tables C4 and C10 speak of *)

WellFormed(t, T) ==
    \A k \in 1..Len(t) :
        LET n == childCount(t, k)
        IN  /\ n = 0 => t[k].cast \in {"Success", "Sink"}
            /\ n = 1 => t[k].cast = "Direct"
            /\ n > 1 => \E j \in 1..Len(T) : T[j].name = t[k].cast /\ T[j].mycols = n

RowsSumToOne(T) ==
    \A j \in 1..Len(T) : \A r \in 1..Len(T[j].rawdata) :
        Abs(Unit - SumSeq(T[j].rawdata[r])) * PerMille <= Unit

-----------------------------------------------------------------------------
(* C1: in Cast, a casting table with exactly one row is read at row 0 for every
   child column: the row given to readCell is 0, lies inside the table and is
   not drawn from the generator. *)
C1_SingleRowIsRowZero ==
    \A k \in 1..Len(castLog) :
        castLog[k].rows = 1 => castLog[k].r = 0 /\ castLog[k].inside /\ ~castLog[k].drew

(* C2: one iteration of the validated model Start(Direct) -> A(Direct) ->
   B(T = [0.5, 0.5]) -> {C Success, D Sink} with N = 100 records 100 at Start,
   A and B and 50 at C and D. *)
C2_ChainPopulations ==
    (/\ slot = RunSlot /\ Iterated
     /\ Stages(tree) = Stages(Chain)
     /\ Tables = <<TableOf("T", <<<<Half, Half>>>>)>>
     /\ Output[1].myrows = 4)
    => /\ ~crashed
       /\ Pops(tree) = <<Whole(100), Whole(100), Whole(100), Whole(50), Whole(50)>>

(* C3, as stated: the population passed to child c of a caster stage is the
   incoming one times max(cell(row, c), Eps). *)
C3_PassesMaxOfCellAndEps ==
    \A k \in 1..Len(castLog) :
        castLog[k].inside =>
            castLog[k].out = Times(castLog[k].n, Max({castLog[k].f, castLog[k].eps}))

(* C3, amended: the population passed to child c of a caster stage is the
   incoming one times the cell when the cell is above 0, and times Eps
   otherwise; a cell between 0 and Eps is used as it is. *)
C3_PassesCellOrEpsForZero ==
    \A k \in 1..Len(castLog) :
        LET e == castLog[k]
        IN  e.inside => e.out = Times(e.n, IF e.f > 0 THEN e.f ELSE e.eps)

(* a cell strictly between 0 and Eps has been cast *)
C3_CellBelowEpsCast ==
    \E k \in 1..Len(castLog) :
        LET e == castLog[k]
        IN  e.inside /\ 0 < e.f /\ e.f < e.eps /\ e.out = Times(e.n, e.f) /\ e.n.num > 0

(* C4: with N > 0 and Eps > 0, after an iteration of a validated model whose
   caster stages name tables of as many columns as they have following stages,
   no stage following a caster stage has the population 0 (the stage at a zero
   column has the incoming population times Eps). *)
C4_NoZeroAfterCaster ==
    (Iterated /\ Eps > 0 /\ WellFormed(tree, Tables)) =>
        /\ ~crashed
        /\ \A k \in 2..Len(tree) :
              ~IsType(tree[parent(tree, k)].cast) => tree[k].pop.num # 0
        /\ \A j \in 1..Len(castLog) :
              castLog[j].f = 0 => castLog[j].out = Times(castLog[j].n, Eps)

-----------------------------------------------------------------------------
StructuralErrors == {"terminal", "single", "nocasting", "columns"}

(* C10, as stated: the check of a tree whose stages without a following stage
   are Success or Sink, whose stages with one are Direct and whose stages with
   n > 1 name a table of n columns reports no structural error, and sets
   Checked when every row of every table sums to 1 within 0.001. *)
C10_WellFormedIsChecked ==
    (slot = CheckSlot /\ WellFormed(tree, Tables)) =>
        /\ box.kind \notin StructuralErrors
        /\ RowsSumToOne(Tables) => Checked

(* C10, amended: the same while no replication is under way; while one is, the
   check does nothing and Checked stays unset. *)
C10_WellFormedIsCheckedUnlessCloning ==
    (slot = CheckSlot /\ WellFormed(tree, Tables)) =>
        IF CloneMode THEN ~Checked /\ box = NoBox
        ELSE /\ ~crashed
             /\ box.kind \in {"consistent", "workable", "declined"}
             /\ RowsSumToOne(Tables) => Checked /\ box.kind = "consistent"

(* a tree with a caster stage has been checked and found consistent *)
C10_CasterTreeChecked ==
    /\ slot = CheckSlot /\ Checked /\ box.kind = "consistent"
    /\ WellFormed(tree, Tables) /\ RowsSumToOne(Tables)
    /\ \E k \in 1..Len(tree) : childCount(tree, k) > 1

-----------------------------------------------------------------------------
(* The slots that edit the tree or the casting tables *)

StageSlots ==
    {"on_BChild_clicked", "on_BSibling_clicked", "on_BRenameStage_clicked",
     "on_BSetCasting_clicked", "on_BSetType_clicked", "on_BRemoveNode_clicked",
     "on_BCloneNode_clicked"}

TableSlots ==
    {"on_BNewTable_clicked", "on_BDupliTable_clicked", "on_BRenameTable_clicked",
     "on_BDelTable_clicked"}

ImportSlot == "on_BPasteTable_clicked"

ViewSlots ==
    {"setData", "on_BShowAll_clicked", "on_BShowSuccess_clicked", "on_BShowNone_clicked",
     "on_TreeWid_currentItemChanged"}

(* the step changed a stage, added or took away a stage, a casting name or its
   table, or began a replication *)
Edited ==
    \/ tree' # tree
    \/ CBCastings' # CBCastings
    \/ CloneMode' /\ ~CloneMode

(* what a model file keeps of the tree and the tables: shape, stage names,
   castings and report marks; names, shapes and cells *)
Persistent(w) ==
    [stages |-> [k \in 1..Len(w.stages) |->
                    <<w.stages[k].level, w.stages[k].item.name, w.stages[k].item.cast,
                      w.stages[k].item.report>>],
     tables |-> w.tables]

-----------------------------------------------------------------------------
(* C5: a run allocates the output table and makes an iteration only with
   Checked set when the iterations start; a run that ends with Checked unset
   (it was unset and no check in the call succeeded) leaves the output table
   and the population of every stage as they were. *)
C5_RunNeedsChecked ==
    [][slot' = RunSlot =>
          /\ (Output' # Output \/ runs' # runs \/ castLog' # <<>>) => Checked'
          /\ ~Checked' => Output' = Output /\ Pops(tree') = Pops(tree) /\ runs' = runs]_vars

(* a run of a model that is not checked has returned and the output table of
   an earlier run is there *)
C5_RunRefused ==
    /\ slot = RunSlot /\ ~was.Checked /\ ~Checked /\ ~crashed
    /\ Output # <<>>

(* C6: after a successful check, adding a stage (child or sibling), renaming a
   stage, setting its casting or type, removing it, starting a replication,
   creating, duplicating, renaming or deleting a table and a successful import
   unset Checked; and a run that starts with Checked unset makes an iteration
   only when the check in the call succeeds. *)
C6_EditsUncheck ==
    [][/\ (slot' \in StageSlots \cup TableSlots \cup {ImportSlot} /\ Checked /\ Edited /\ ~crashed')
             => ~Checked'
       /\ (slot' = RunSlot /\ ~Checked /\ Iterated')
             => box'.kind \in {"consistent", "workable"}]_vars

(* a stage has been added next to a stage of a checked model *)
C6_SiblingAddedAfterCheck ==
    /\ slot = "on_BSibling_clicked" /\ was.Checked /\ ~Checked /\ ~crashed
    /\ Len(tree) > 2

(* C7: every slot that changes the tree or a casting table leaves Checked and
   Saved unset: the slots that add, rename, remove or set, a cell written with
   setData, show all / show success / show none, and the end of a replication
   in on_TreeWid_currentItemChanged. *)
C7_ChangesUnsetFlags ==
    [][(slot' \in StageSlots \cup TableSlots \cup ViewSlots /\ (tree' # tree \/ Tables' # Tables))
          => ~Checked' /\ ~Saved']_vars

(* C8: in every state, Saved implies that the tree and the casting tables are
   those of the model file last written or read. *)
C8_SavedMatchesFile ==
    (Saved /\ disk # <<>> /\ tree # <<>>) =>
        Persistent(Written(tree, Tables)) = Persistent(disk[1])

(* C9, as stated: no iteration is made while Saved is unset. *)
C9_NoIterationUnsaved == (slot = RunSlot /\ Iterated) => Saved

(* C9, amended: a run asks whether to save a model that is not saved and goes
   on whatever the answer and whatever becomes of the save: it allocates the
   output table and iterates exactly when Checked is set after the prompts,
   with Saved set or not. *)
C9_RunGoesOnUnsaved ==
    [][(slot' = RunSlot /\ ~crashed') =>
          IF Checked'
          THEN /\ Output' # <<>> /\ GoOn'
               /\ Output'[1].myrows > 3 => Len(runs') = Len(runs) + 1
          ELSE Output' = Output /\ runs' = runs]_vars

(* a run has made an iteration of a model that is not saved *)
C9_IteratedUnsaved == slot = RunSlot /\ Iterated /\ ~Saved /\ ~was.Saved /\ ~crashed

-----------------------------------------------------------------------------
(* The stages the check finds fault with, in iterator order *)

Faulty(t, T) == {k \in 1..Len(t) : StageError(t, T, k) # ""}

FirstFaulty(t, T) == Min(Faulty(t, T))

(* the check of this step ran its stage loop and stopped at a stage *)
Stopped == slot = CheckSlot /\ ~CloneMode /\ tree # <<>> /\ Faulty(tree, Tables) # {}

(* the check told the user of stage k with the message kind, and of nothing
   else *)
Reports(kind, k) ==
    /\ ~crashed
    /\ box.kind = kind /\ box.stage = k
    /\ box.name = tree[k].name
    /\ box.id = IDMarkTree(tree)[k].id
    /\ box.warnings = <<>>

(* C11: when the first stage the check finds fault with has no following stage
   and a casting other than Success or Sink, the check fails and leaves Checked
   unset, reports that stage with its ID, and looks at no stage after it. *)
C11_TerminalKindReported ==
    (Stopped /\ StageError(tree, Tables, FirstFaulty(tree, Tables)) = "terminal") =>
        ~Checked /\ Reports("terminal", FirstFaulty(tree, Tables))

(* C12: when the first stage the check finds fault with (the first stage
   included) has exactly one following stage and a casting other than Direct,
   the check fails and leaves Checked unset, reporting that stage. *)
C12_SingleChildKindReported ==
    (Stopped /\ StageError(tree, Tables, FirstFaulty(tree, Tables)) = "single") =>
        ~Checked /\ Reports("single", FirstFaulty(tree, Tables))

(* C13: when a stage with more than one following stage has a casting that
   names no casting table (Direct, Success or Sink, no casting at all, or a name
   no table has), the check fails and Checked stays unset. *)
C13_BranchWithoutTableFails ==
    (/\ slot = CheckSlot /\ ~CloneMode /\ cur # 0
     /\ \E k \in 1..Len(tree) :
           childCount(tree, k) > 1 /\ FindTable(Tables, tree[k].cast) = 0)
    => ~Checked /\ box.kind \in StructuralErrors

(* C14: when the first stage the check finds fault with has n > 1 following
   stages and names a casting table whose number of columns is not n, the check
   fails and leaves Checked unset, reporting the stage, n and the number of
   columns of the table. *)
C14_ColumnMismatchReported ==
    (Stopped /\ StageError(tree, Tables, FirstFaulty(tree, Tables)) = "columns") =>
        LET k == FirstFaulty(tree, Tables)
        IN  /\ ~Checked /\ Reports("columns", k)
            /\ box.n = childCount(tree, k)
            /\ box.cols = Tables[FindTable(Tables, tree[k].cast)].mycols
            /\ box.cols # box.n

-----------------------------------------------------------------------------
(* C15: after a cell has been written with setData, no row of any casting
   table, whether the table was filled with zeroes, from a copy or from raw
   data, sums to more than 1. *)
C15_RowSumAtMostOne ==
    slot = "setData" =>
        \A k \in 1..Len(Tables) : \A r \in 1..Len(Tables[k].rawdata) :
            SumSeq(Tables[k].rawdata[r]) <= Unit

(* C16: a cell that setData has written holds a value from 0 to 1, whatever
   the value asked for and whatever the other cells of its row hold, rows
   filled from raw data included. *)
C16_WrittenCellInRange ==
    [][slot' = "setData" =>
          \A k \in 1..Len(Tables) : \A r \in 1..Len(Tables[k].rawdata) :
              \A c \in 1..Len(Tables[k].rawdata[r]) :
                  (/\ Len(Tables') = Len(Tables)
                   /\ Tables'[k].rawdata[r][c] # Tables[k].rawdata[r][c])
                  => Tables'[k].rawdata[r][c] \in 0..Unit]_vars

-----------------------------------------------------------------------------
OpenSlot == "on_actionOpen_triggered"

(* shape, order of the stages under every stage, and name, casting, report
   mark and ID of every stage *)
Attributes(t) ==
    [k \in 1..Len(t) |-> <<t[k].level, t[k].name, t[k].cast, t[k].report, t[k].id>>]

(* the step read the model file (written before or in the step) and the file
   held the model as it was before the step *)
ReadBack ==
    /\ slot' = OpenSlot /\ ~crashed'
    /\ Saved' /\ FileName' = ModelFile
    /\ disk' # <<>> /\ tree # <<>> /\ disk'[1] = Written(tree, Tables)

(* C17: opening the file a model was saved to gives the tree with the same
   shape, the same order of the stages under every stage and the same name,
   casting, report mark and ID at every stage, and the casting tables with the
   same names, numbers of rows and columns and cells; for every model, those
   that passed the check included. *)
C17_OpenGivesSavedModel ==
    [][ReadBack => Attributes(tree') = Attributes(tree) /\ Tables' = Tables]_vars

(* a checked model with two stages under Start has been read from its file *)
C17_CasterModelReadBack ==
    /\ slot = OpenSlot /\ was.Checked /\ ~crashed
    /\ cur = 0 /\ Saved /\ FileName = ModelFile
    /\ Attributes(tree) = Attributes(IDMarkTree(Caster3))
    /\ disk = <<Written(tree, Tables)>>
    /\ Len(Tables) = 1

(* the names of the tables, each as often as it is there *)
Names(T) == SortTexts([k \in 1..Len(T) |-> T[k].name])

(* C18: after a model file has been opened and read, Checked is unset and
   Saved is set, whatever the two flags were before, and the casting list holds
   exactly the names of the tables read from the file. *)
C18_OpenedFlagsAndList ==
    [][(slot' = OpenSlot /\ box'.kind = "opened") =>
          /\ ~Checked' /\ Saved'
          /\ CBCastings' = Names(Tables')
          /\ [k \in 1..Len(Tables') |-> Tables'[k].name]
                = [k \in 1..Len(disk'[1].tables) |-> disk'[1].tables[k].name]]_vars

(* the file of a checked model with a casting table has been opened *)
C18_CheckedModelOpened ==
    /\ slot = OpenSlot /\ box.kind = "opened" /\ ~crashed
    /\ was.Checked /\ ~Checked /\ Saved
    /\ CBCastings = <<"T">>

(* C19: when the file to open cannot be opened, the model in memory is as
   before: the tree, the casting tables and the casting list are unchanged. *)
C19_FailedOpenKeepsModel ==
    [][(slot' = OpenSlot /\ box'.kind = "unopened") =>
          /\ ~crashed'
          /\ tree' = tree /\ Tables' = Tables /\ CBCastings' = CBCastings]_vars

(* the names a casting table may not take, and the names of the tables other
   than the one at position k (0: of all the tables) *)
Refused == {"Direct", "Success", "Sink"}

NamesButOf(T, k) == {T[j].name : j \in 1..Len(T) \ {k}}

(* what a refused request leaves alone *)
TablesKept ==
    /\ Tables' = Tables
    /\ CBCastings' = CBCastings
    /\ [k \in 1..Len(tree') |-> tree'[k].cast] = [k \in 1..Len(tree) |-> tree[k].cast]
    /\ Checked' = Checked
    /\ Saved' = Saved

(* the step is the slot, entered with a text that is refused or the name of
   another table *)
NewRefused(text) ==
    /\ slot' = "on_BNewTable_clicked"
    /\ text \in Refused \cup NamesButOf(Tables, 0)
    /\ \E rows \in RowCounts, cols \in ColCounts : on_BNewTable_clicked(text, rows, cols)

DupliRefused(text) ==
    /\ slot' = "on_BDupliTable_clicked"
    /\ text \in Refused \cup NamesButOf(Tables, 0)
    /\ on_BDupliTable_clicked(text)

PasteRefused(text) ==
    /\ slot' = "on_BPasteTable_clicked"
    /\ text \in Refused \cup NamesButOf(Tables, 0)
    /\ \E clip \in Clipboards : on_BPasteTable_clicked(text, clip)

RenameRefused(text) ==
    /\ slot' = "on_BRenameTable_clicked"
    /\ text \in Refused \cup NamesButOf(Tables, TableView.pos)
    /\ on_BRenameTable_clicked(text)

(* C20: a new, duplicated, pasted or renamed casting table asked for with the
   name Direct, Success or Sink, or with the name another table has, is refused
   with nothing changed: the tables, the casting list, the casting of every
   stage, Checked and Saved are as before. *)
C20_NameConflictRefused ==
    [][\A text \in CastingNames :
          (NewRefused(text) \/ DupliRefused(text) \/ PasteRefused(text) \/ RenameRefused(text))
              => TablesKept]_vars

(* a second table U has been made next to T, and a new table asked for with the
   name T: the list shows T again and both tables are as they were *)
C20_SecondTableAskedAgain ==
    /\ slot = "on_BNewTable_clicked" /\ left = MaxLater - 2 /\ ~crashed
    /\ [k \in 1..Len(Tables) |-> Tables[k].name] = <<"T", "U">>
    /\ CBCastings = <<"T", "U">>
    /\ CBIndex = 1
    /\ TableView = ViewAt(1)

-----------------------------------------------------------------------------
(* C21: no two casting tables of the list Tables have the same name, and no
   table is named Direct, Success or Sink. *)
C21_TableNamesUnique ==
    /\ \A j, k \in 1..Len(Tables) : j # k => Tables[j].name # Tables[k].name
    /\ \A k \in 1..Len(Tables) : Tables[k].name \notin Refused

-----------------------------------------------------------------------------
(* the stages that have no stage above them *)
Roots(t) == {k \in 1..Len(t) : t[k].level = 0}

(* C22: after every step the tree has exactly one stage with no stage above
   it, and a stage asked for next to that stage is refused with nothing
   changed. *)
C22_ExactlyOneRoot ==
    [][/\ ~crashed' => Cardinality(Roots(tree')) = 1
       /\ (slot' = "on_BSibling_clicked" /\ cur # 0 /\ parent(tree, cur) = 0)
             => UNCHANGED progVars]_vars

-----------------------------------------------------------------------------
(* The output table of a run *)

Size(out) == <<out[1].myrows, out[1].mycols>>

AtLeast5(n) == IF n < 5 THEN 5 ELSE n

(* the step was a call of on_actionRun_triggered that went past the prompts and
   allocated the output table *)
Allocated == slot' = RunSlot /\ Checked' /\ ~crashed'

(* the number of iterations the run of the step was started with: a run of no
   iteration has returned in the step *)
ItersOfStep == IF Len(runs') > Len(runs) THEN runs'[Len(runs')].Iters ELSE 0

(* a run is in processEvents before the step and has not returned after it *)
StillRunning == runs # <<>> /\ runs' # <<>> /\ ~crashed'

(* C23: a run allocates an output table of Iters+3 rows and max(5, r+1)
   columns, r the number of stages marked for the report when it starts; and
   while the run has not returned, whatever the user does between two
   iterations, no other table takes its place and its size stays the same. *)
C23_OutputFixedForRun ==
    [][/\ Allocated =>
             Size(Output') = <<ItersOfStep + 3, AtLeast5(Len(Reported(tree)) + 1)>>
       /\ StillRunning =>
             /\ Size(Output') = Size(Output)
             /\ ~Allocated]_vars

-----------------------------------------------------------------------------
(* the step made an iteration and the run is in processEvents again *)
IterationMade ==
    /\ ~crashed'
    /\ \/ slot' = RunSlot /\ Len(runs') = Len(runs) + 1
       \/ slot' = "iterate"

(* the number of the iteration made *)
IterationNo == runs'[Len(runs')].i

(* row r (from 0) of the output table *)
OutRow(out, r) == out[1].rawdata[r + 1]

(* C24: the row i+2 written by iteration i has i in column 0 and, in column j
   from 1 on, the population that iteration left at the j-th stage marked for
   the report in iterator order, and that stage is the one whose ID and name
   are in rows 1 and 2 of column j. *)
C24_RowMatchesHeader ==
    [][IterationMade =>
          LET rep == Reported(tree')
              row == OutRow(Output', IterationNo + 2)
          IN  /\ row[1] = IterText(IterationNo)
              /\ \A j \in 1..Len(rep) :
                    /\ row[j + 1] = Fixed3(tree'[rep[j]].pop)
                    /\ OutRow(Output', 1)[j + 1] = IDText(tree'[rep[j]].id)
                    /\ OutRow(Output', 2)[j + 1] = Text(tree'[rep[j]].name)]_vars

(* the slot of the step was called from processEvents while a run had not
   returned; "iterate" and "return" are the run itself going on *)
CalledWhileRunning == runs # <<>> /\ slot' \notin {"iterate", "return"}

(* C27: while a run has not returned, no slot called from the event loop (an
   edit of a stage or of a table, Open, New, another Run) changes the stage
   tree or the casting tables. *)
C27_NoChangeWhileRunning ==
    [][CalledWhileRunning => tree' = tree /\ Tables' = Tables]_vars

-----------------------------------------------------------------------------
(* every row of an iteration is blank, or holds the number of its iteration
   and a population for every stage of t marked for the report *)
RowsWhole(out, t) ==
    \A r \in 3..(out[1].myrows - 1) :
        \/ \A c \in 1..out[1].mycols : OutRow(out, r)[c] = Blank
        \/ /\ OutRow(out, r)[1] = IterText(r - 2)
           /\ \A j \in 1..Len(Reported(t)) : OutRow(out, r)[j + 1].kind = "fixed3"

(* C25: on_BCancel_clicked only unsets GoOn and leaves the output table, the
   tree and the run where they are; an iteration is begun only with GoOn set,
   so none is begun once the loop has read GoOn unset; and every row of an
   iteration is written as a whole or not at all. *)
C25_CancelBetweenIterations ==
    [][/\ slot' = "on_BCancel_clicked" =>
             ~GoOn' /\ Output' = Output /\ tree' = tree /\ runs' = runs
       /\ slot' = "iterate" => GoOn
       /\ (~crashed' /\ Output' # <<>>) => RowsWhole(Output', tree')]_vars

(* a run of two iterations has returned after the first one, GoOn unset by
   on_BCancel_clicked: the row of the second iteration is blank *)
C25_CancelledAfterFirst ==
    /\ slot = "return" /\ ~GoOn /\ ~crashed /\ runs = <<>>
    /\ Output # <<>> /\ Output[1].myrows = 5
    /\ OutRow(Output, 3)[1] = IterText(1)
    /\ \A c \in 1..Output[1].mycols : OutRow(Output, 4)[c] = Blank
    /\ Reported(tree) # <<>>

-----------------------------------------------------------------------------
(* the step was a call of on_actionRun_triggered that went past the prompts *)
RunStarted == slot = RunSlot /\ Checked

(* no run is under way and the process is alive *)
AllReturned == runs = <<>> /\ ~crashed

(* every row of an iteration holds the number of its iteration *)
FullLog == \A r \in 3..(Output[1].myrows - 1) : OutRow(Output, r)[1] = IterText(r - 2)

(* C26: a run of a checked model begins with GoOn set, whatever
   on_BCancel_clicked did before; none of its steps breaks off; it returns in
   the end; and when it has returned with GoOn still set, the output table
   holds the three header rows and the rows of the iterations 1..Iters, all of
   them written. *)
C26_RunReturnsAfterIters ==
    /\ [](slot \in {RunSlot, "iterate", "return"} => ~crashed)
    /\ [](RunStarted /\ ~crashed => GoOn /\ Output # <<>>)
    /\ [](AllReturned /\ GoOn /\ slot \in {RunSlot, "return"} /\ Checked => FullLog)
    /\ (RunStarted ~> AllReturned)

-----------------------------------------------------------------------------
(* C28: whenever Checked is set, the stage loop of the check, run again on the
   tree and the casting tables as they are, finds fault with no stage: no slot,
   whether it does its work, refuses or gives up half way, leaves Checked set
   on a tree and tables the stage loop would stop at. *)
C28_CheckedMeansSound ==
    (Checked /\ ~crashed /\ tree # <<>>) => Faulty(tree, Tables) = {}

-----------------------------------------------------------------------------
(* the rows of the tables whose sum is further than 0.001 from 1.0, as
   <<position of the table in Tables, row>> *)
OffByMore ==
    {e \in UNION {{<<k, r>> : r \in 0..(Tables[k].myrows - 1)} : k \in 1..Len(Tables)} :
        Abs(Unit - SumSeq(Tables[e[1]].rawdata[e[2] + 1])) * 1000 > Unit}

(* table order, then row order *)
Before(a, b) == a[1] < b[1] \/ (a[1] = b[1] /\ a[2] < b[2])

Place(e) == Cardinality({f \in OffByMore : Before(f, e)}) + 1

(* the check of this step went through its stage loop without an error *)
StagesPassed ==
    /\ slot' = CheckSlot /\ ~crashed' /\ ~CloneMode
    /\ tree # <<>> /\ Faulty(tree', Tables) = {}

(* C29: after the stage loop of the check has passed, the warnings raised are
   those of the rows whose sum is further than 0.001 from 1.0, one each, table
   after table and row after row, up to the first one that is declined; with
   every warning acknowledged all of them are raised and Checked is set, with
   one declined the check ends there and Checked stays unset *)
C29_WarningsInOrder ==
    [][StagesPassed =>
        LET w == box'.warnings
        IN  /\ Len(w) <= Cardinality(OffByMore)
            /\ \A e \in OffByMore :
                  Place(e) <= Len(w) => w[Place(e)] = <<Tables[e[1]].name, e[2] + 1>>
            /\ box'.kind \in {"consistent", "workable", "declined"}
            /\ box'.kind = "declined" => Len(w) >= 1 /\ ~Checked'
            /\ box'.kind # "declined" => Len(w) = Cardinality(OffByMore) /\ Checked'
            /\ box'.kind = "consistent" <=> (OffByMore = {} /\ Checked')]_vars

(* a check that warned of the second row of the first table, then of the first
   row of the second table, and was declined there *)
C29_DeclinedAtSecond ==
    /\ slot = CheckSlot /\ ~crashed /\ box.kind = "declined" /\ ~Checked
    /\ Len(Tables) = 2
    /\ box.warnings = <<<<Tables[1].name, 2>>, <<Tables[2].name, 1>>>>

-----------------------------------------------------------------------------
(* the IDs of a tree with one root: "1" for the root, and for every other item
   the ID of its parent followed by its number among the parent's children,
   counted from 1 *)
WellMarked(t) ==
    /\ t[1].id = <<1>>
    /\ \A k \in 2..Len(t) :
          parent(t, k) # 0 => t[k].id = t[parent(t, k)].id \o <<indexOfChild(t, k) + 1>>
    /\ \A j, k \in 1..Len(t) : j # k => t[j].id # t[k].id

(* the check of this step has gone past the test of the replication mode *)
CheckRan == slot' = CheckSlot /\ ~CloneMode /\ tree # <<>> /\ ~crashed'

(* C30: after a check of a tree with a root, whatever its outcome, the root has
   the ID "1", every other stage has the ID of its parent followed by "." and
   its number among its siblings counted from 1, and no two stages share an ID *)
C30_MarkedByCheck ==
    [][CheckRan => /\ WellMarked(tree')
                   /\ Cardinality(Roots(tree')) = 1]_vars

(* a check that stopped at a stage with an error, on a tree with a stage at
   the third level *)
C30_MarkedThoughFailed ==
    /\ slot = CheckSlot /\ ~crashed /\ ~Checked
    /\ box.kind \in {"terminal", "single", "nocasting", "columns"}
    /\ \E k \in 1..Len(tree) : tree[k].level = 2 /\ Len(tree[k].id) = 3
    /\ WellMarked(tree)

-----------------------------------------------------------------------------
(* the tree without the IDs of its items *)
Unmarked(t) == [k \in 1..Len(t) |-> [t[k] EXCEPT !.id = NoID]]

(* C31: a check, whether it finds the model consistent or workable, stops at a
   stage or is given up at a warning, changes nothing of the model but the IDs
   and Checked: the shape of the tree, the name, casting, report mark and
   population of every stage, the list of tables and every table (name, rows,
   columns, cells), the casting list, Saved, the file name and the file are as
   before. *)
C31_CheckOnlyMarks ==
    [][slot' = CheckSlot =>
          /\ Unmarked(tree') = Unmarked(tree)
          /\ Tables' = Tables /\ NumTables' = NumTables
          /\ CBCastings' = CBCastings /\ CBIndex' = CBIndex
          /\ Saved' = Saved /\ FileName' = FileName /\ disk' = disk
          /\ Output' = Output]_vars

(* a check of an edited model that is not saved was given up at the second of
   its warnings *)
C31_GivenUpUnsaved ==
    /\ slot = CheckSlot /\ ~crashed /\ box.kind = "declined" /\ ~Checked
    /\ ~was.Checked /\ ~Saved
    /\ Len(box.warnings) = 2
    /\ Len(tree) = 3

-----------------------------------------------------------------------------
Least(a, b) == IF a < b THEN a ELSE b

Most(a, b) == IF a > b THEN a ELSE b

(* the sum of the cells of a row other than the cell of column c *)
OthersSum(row, c) == SumSeq([j \in 1..Len(row) |-> IF j = c + 1 THEN 0 ELSE row[j]])

(* C32: setData with the value v at cell (r, c) of the table in the view
   stores min(max(0, min(v, 1)), 1 - s) there, s the sum of the other cells of
   row r, and leaves every other cell of the table, its numbers of rows and
   columns and its name as they were; the other tables are as before. *)
C32_WrittenCellCapped ==
    [][\A r \in 0..1, c \in 0..1, v \in CellValues :
          (slot' = "setData" /\ EditCell(r, c, v)) =>
              LET old == ViewModel(Tables, TableView)
                  new == ViewModel(Tables', TableView')
                  s == OthersSum(old.rawdata[r + 1], c)
              IN  /\ new.rawdata[r + 1][c + 1] = Least(Most(0, Least(v, Unit)), Unit - s)
                  /\ \A i \in 1..Len(old.rawdata), j \in 1..old.mycols :
                        <<i, j>> # <<r + 1, c + 1>> => new.rawdata[i][j] = old.rawdata[i][j]
                  /\ Len(new.rawdata) = Len(old.rawdata)
                  /\ new.myrows = old.myrows /\ new.mycols = old.mycols /\ new.name = old.name
                  /\ Len(Tables') = Len(Tables)
                  /\ \A k \in 1..Len(Tables) : k # TableView.pos => Tables'[k] = Tables[k]]_vars

(* a cell has been written in a row whose other cell holds 2: the cell now
   holds -1 *)
C32_HeadroomBelowZero ==
    /\ slot = "setData" /\ ~crashed /\ HasModel(TableView) /\ TableView.pos > 0
    /\ Tables[TableView.pos].rawdata[1] = <<2 * Unit, 0 - Unit>>

-----------------------------------------------------------------------------
(* item k is item i or an item below it *)
RECURSIVE IsUnder(_, _, _)
IsUnder(t, k, i) ==
    \/ k = i
    \/ parent(t, k) # 0 /\ IsUnder(t, parent(t, k), i)

(* the items of t that are neither item i nor below it, in their order *)
Outside(t, i) ==
    LET apart(k) == ~IsUnder(t, k, i)
        others == SelectSeq([k \in 1..Len(t) |-> k], apart)
    IN  [j \in 1..Len(others) |-> t[others[j]]]

(* C33: with no replication pending, a confirmed removal of the current stage
   takes out that stage and every stage below it and nothing else: the other
   stages are there with all they hold, in the order they had. While a
   replication is pending, the removal and the check leave the tree and Checked
   as they are. *)
C33_RemovesSubtreeOnly ==
    [][/\ (slot' = "on_BRemoveNode_clicked" /\ on_BRemoveNode_clicked(TRUE)
             /\ ~CloneMode /\ cur # 0)
          => tree' = Outside(tree, cur)
       /\ (slot' \in {"on_BRemoveNode_clicked", CheckSlot} /\ CloneMode)
          => tree' = tree /\ Checked' = Checked]_vars

(* of the two stages under Start of a checked model the first one is removed:
   the second one is there as it was, with the ID of the last check *)
C33_FirstOfTwoRemoved ==
    /\ slot = "on_BRemoveNode_clicked" /\ ~crashed /\ was.Checked /\ ~Checked
    /\ Len(tree) = 2
    /\ tree[2].cast = "Sink" /\ tree[2].id = <<1, 2>>

-----------------------------------------------------------------------------
(* item i of t and the items below it, in their order *)
Under(t, i) ==
    LET below(k) == IsUnder(t, k, i)
        those == SelectSeq([k \in 1..Len(t) |-> k], below)
    IN  [j \in 1..Len(those) |-> t[those[j]]]

(* the shape of a subtree and what the replication is to keep of its items *)
Likeness(s) ==
    [k \in 1..Len(s) |-> [depth |-> s[k].level - s[1].level, name |-> s[k].name,
                          cast |-> s[k].cast, report |-> s[k].report]]

(* C34: the selection of stage d while a replication of stage SourceClone is
   pending puts, as the last stage under d, a new subtree of the shape of the
   subtree of SourceClone with the same name, casting and report mark at every
   stage; the subtree of SourceClone and every other stage are as before, and
   the replication is no longer pending. This holds as well when d is below
   SourceClone. *)
C34_CloneAppendsCopy ==
    [][\A d \in 1..MaxCloned :
          (/\ slot' = "on_TreeWid_currentItemChanged" /\ on_TreeWid_currentItemChanged(d)
           /\ CloneMode /\ SourceClone # Dangling)
          => LET q == child(tree', d, childCount(tree', d) - 1)
             IN  /\ childCount(tree', d) = childCount(tree, d) + 1
                 /\ q # 0 /\ parent(tree', q) = d
                 /\ Likeness(Under(tree', q)) = Likeness(Under(tree, SourceClone))
                 /\ Outside(tree', q) = tree
                 /\ ~CloneMode' /\ ~crashed']_vars

(* Start has been replicated under the stage below it: the tree is a chain of
   four stages, Start, a, Start, a *)
C34_ClonedBelowItself ==
    /\ slot = "on_TreeWid_currentItemChanged" /\ ~crashed /\ ~CloneMode
    /\ [k \in 1..Len(tree) |-> <<tree[k].level, tree[k].name>>]
          = <<<<0, "Start">>, <<1, "a">>, <<2, "Start">>, <<3, "a">>>>
    /\ cur = 2

-----------------------------------------------------------------------------
(* a population no call of Cast leaves at a stage *)
NoPop == Whole(0 - 1)

Unvisited(t) == [k \in 1..Len(t) |-> [t[k] EXCEPT !.pop = NoPop]]

(* Cast from the first stage with the population 100, on the tree with no
   population at any stage *)
CastFromRoot(pick, eps) ==
    Cast([t |-> Unvisited(tree), ok |-> TRUE, log |-> <<>>], Tables, eps, pick, 1, Whole(100))

(* the stages a call of Cast has been at *)
Seen(c) == {k \in 1..Len(c.t) : c.t[k].pop # NoPop}

(* the stages where a path of the call ends: none of the stages below was
   reached *)
PathEnds(c) == {k \in Seen(c) : ChildSet(c.t, k) \cap Seen(c) = {}}

(* C35: on a tree the check has just passed, every call of Cast from the first
   stage comes to its end (no exception leaves it), and every path it follows
   ends at a stage that is Success or Sink. *)
C35_CastEndsAtTerminals ==
    (slot = CheckSlot /\ Checked /\ ~crashed) =>
        \A pick \in Picks(tree, Tables), eps \in EpsValues :
            LET c == CastFromRoot(pick, eps)
            IN  /\ c.ok
                /\ \A k \in PathEnds(c) : tree[k].cast \in {"Success", "Sink"}

-----------------------------------------------------------------------------
(* the clipboard holds no text, or a text without two tabs and a newline *)
Incompatible(clip) == ~clip.hasText \/ clip.tabs < 2 \/ clip.newlines < 1

(* the step is a paste asked for with a name that is free, from a clipboard
   that is not compatible *)
PasteFailed ==
    /\ slot' = "on_BPasteTable_clicked"
    /\ \E text \in CastingNames \ ({""} \cup Refused), clip \in Clipboards :
          /\ findText(CBCastings, text) = 0
          /\ Incompatible(clip)
          /\ on_BPasteTable_clicked(text, clip)

(* C36: a paste that fails because the clipboard holds nothing compatible
   leaves the model untouched: the list of tables and its count, the casting
   list, Checked and Saved are as before the call, and no table without rows,
   without columns or without a name is there afterwards. *)
C36_FailedPasteKeepsModel ==
    [][PasteFailed =>
          /\ Tables' = Tables /\ NumTables' = NumTables
          /\ CBCastings' = CBCastings
          /\ Checked' = Checked /\ Saved' = Saved
          /\ \A k \in 1..Len(Tables') :
                Tables'[k].myrows > 0 /\ Tables'[k].mycols > 0 /\ Tables'[k].name # ""]_vars

-----------------------------------------------------------------------------
(* the tables of T whose name is not nam, in their order *)
TablesBut(T, nam) ==
    LET other(tbl) == tbl.name # nam
    IN  SelectSeq(T, other)

(* the castings of the stages, nam replaced by new *)
CastingsWith(t, nam, new) == [k \in 1..Len(t) |-> IF t[k].cast = nam THEN new ELSE t[k].cast]

Castings(t) == [k \in 1..Len(t) |-> t[k].cast]

(* the step is a confirmed deletion while an entry of the casting list is
   selected *)
Deleted == slot' = "on_BDelTable_clicked" /\ CBIndex # 0 /\ on_BDelTable_clicked(TRUE)

(* the step is a renaming to text that is not refused *)
Renamed(text) ==
    /\ slot' = "on_BRenameTable_clicked" /\ CBIndex # 0
    /\ findText(CBCastings, text) \in {0, CBIndex}
    /\ on_BRenameTable_clicked(text)

(* C37: whatever was done to the tables, the casting list and the check before,
   a confirmed deletion while the name X is selected in the casting list takes
   out exactly the table named X: no table is named X afterwards, every other
   table is there as it was, the stages that had the casting X have none and
   the other stages keep theirs. A renaming gives the new name to exactly the
   table whose name is selected. *)
C37_SelectedTableIsTheOne ==
    [][LET X == currentText(CBCastings, CBIndex)
       IN  /\ Deleted =>
                /\ FindTable(Tables', X) = 0
                /\ Tables' = TablesBut(Tables, X)
                /\ Len(Tables') = Len(Tables) - 1
                /\ Castings(tree') = CastingsWith(tree, X, "")
           /\ \A text \in CastingNames \ ({""} \cup Refused) :
                (Renamed(text) /\ ~crashed') =>
                   /\ Tables' = [k \in 1..Len(Tables) |->
                                    IF Tables[k].name = X THEN [Tables[k] EXCEPT !.name = text]
                                    ELSE Tables[k]]
                   /\ FindTable(Tables', text) # 0
                   /\ Castings(tree') = CastingsWith(tree, X, text)]_vars

-----------------------------------------------------------------------------
(* the populations a call of Cast leaves, started with the population N on the
   tree t with no population at any stage *)
FreshCast(t, pick, eps, N) ==
    Cast([t |-> Unvisited(t), ok |-> TRUE, log |-> <<>>], Tables, eps, pick, 1, N)

(* C38: in every iteration of a run of a checked model Cast is at every stage
   of the tree and leaves a population there: the populations after the
   iteration, those of the row of the iteration among them, are all of this
   iteration, none is left from an earlier iteration or from before the run. *)
C38_EveryStageFresh ==
    [][IterationMade =>
          \E pick \in Picks(tree, Tables) :
              LET c == FreshCast(tree, pick, Eps', runs'[Len(runs')].N)
              IN  /\ c.ok
                  /\ Seen(c) = 1..Len(tree)
                  /\ Pops(tree') = Pops(c.t)]_vars

-----------------------------------------------------------------------------
(* C39: whenever a replication is pending, SourceClone is a stage of the tree,
   whatever was done while it was pending: the replication started with or
   without a current stage, a new model, a model opened, another stage
   selected. *)
C39_SourceCloneInTree ==
    (CloneMode /\ ~crashed) => SourceClone \in 1..Len(tree)

------------------------------------------------------------------------------
(* the number of stages above stage k *)
RECURSIVE Depth(_, _)
Depth(t, k) == IF parent(t, k) = 0 THEN 0 ELSE 1 + Depth(t, parent(t, k))

(* the content of a model file for the tree t and the tables T: every stage in
   the order of the tree, a stage before the stages under it, with its depth,
   then every table in the order of the list *)
FileOf(t, T) ==
    [stages |-> [k \in 1..Len(t) |-> [level |-> Depth(t, k), item |-> ItemData(t[k])]],
     tables |-> [k \in 1..Len(T) |-> TableRecord(T[k])]]

(* C40: a save (Save, or Save as) leaves the tree, the casting tables and
   Checked as they are; Saved and the file change only when the file could be
   opened, and then Saved is true and the file holds the stages in pre-order,
   each with its depth below the root (the root has 0), followed by every
   table; a save whose file cannot be opened leaves Saved and the file as
   they were *)
C40_SaveWritesModelOnly ==
    [][\A dlg \in FileNames, ok \in BOOLEAN :
          (\/ slot' = "on_actionSave_triggered" /\ on_actionSave_triggered(dlg, ok)
           \/ slot' = "on_actionSave_as_triggered" /\ on_actionSave_as_triggered(dlg, ok))
          => /\ tree' = tree /\ Tables' = Tables /\ NumTables' = NumTables
             /\ CBCastings' = CBCastings /\ Checked' = Checked
             /\ (Saved' # Saved \/ disk' # disk)
                   => ok /\ Saved' /\ FileName' # "" /\ disk' = <<FileOf(tree, Tables)>>
             /\ ~ok => Saved' = Saved /\ disk' = disk]_vars

(* an unsaved model with a stage two levels below the root and a table has
   been saved *)
C40_SavedThreeLevels ==
    /\ slot = "on_actionSave_triggered" /\ ~crashed
    /\ Saved /\ ~was.Saved
    /\ disk = <<FileOf(tree, Tables)>>
    /\ \E k \in 1..Len(disk[1].stages) : disk[1].stages[k].level = 2
    /\ Len(disk[1].tables) >= 1

====
